---- MODULE Spec2Model ----
(***************************************************************************)
(* Model of the impact-classification pipeline of artifact-sync            *)
(* (vscode-extension/python): run_analysis, process_refinement_batch,      *)
(* refine_entry_async, analyze_subfolder_async and the path helpers.       *)
(*                                                                         *)
(* A path is the sequence of the characters of its string; "/" is the      *)
(* separator.  The repository tree is fixed for a run and the process      *)
(* working directory is the repository root, so that os.path.relpath of a  *)
(* repository-relative path against the root is that path normalised.      *)
(***************************************************************************)
EXTENDS Integers, Sequences, FiniteSets, TLC

(***************************************************************************)
(* Bounds of the model.                                                    *)
(***************************************************************************)
\* longest sure or unsure list the initial pass answers with
MaxInitLen == 2

\* most tasks that call get_async_chat on one manager at the same time
MaxCallers == 3

\* most lines of an original content handed to _apply_unified_diff
MaxLines == 3

\* most segments of a candidate path handed to resolve_repo_path
MaxSegments == 3

\* tasks of one batch that send on the same cached session
MaxChatTasks == 3

(***************************************************************************)
(* Program constants.                                                      *)
(***************************************************************************)
\* main.py:319
max_iterations == 3

\* core/config.py:13 (AgentConfig.max_depth default)
max_depth == 3

Sep == "/"

NeededInfoValues == {"file_overview", "file_metadata", "raw_content"}

ConfidenceValues == {"high", "medium", "low"}

(***************************************************************************)
(* The repository on disk: directories and files, root-relative,           *)
(* normalised.  FSWalk is the order in which Path(root).rglob meets them.  *)
(***************************************************************************)
Dirs == { <<"a">>, <<"a", "/", "b">>, <<"a", "/", "b", "/", "c">>, <<"e">> }

Files == { <<"h">>, <<"a", "/", "g">>, <<"a", "/", "b", "/", "c", "/", "f">> }

FSWalk ==
    << <<"a">>, <<"a", "/", "b">>, <<"a", "/", "b", "/", "c">>,
       <<"a", "/", "b", "/", "c", "/", "f">>, <<"a", "/", "g">>,
       <<"e">>, <<"h">> >>

(***************************************************************************)
(* Sequence helpers.                                                       *)
(***************************************************************************)
Range(s) == { s[i] : i \in DOMAIN s }

Last(s) == s[Len(s)]

RECURSIVE Flatten(_)
Flatten(ss) == IF ss = <<>> THEN <<>> ELSE Head(ss) \o Flatten(Tail(ss))

\* str.split(sep): the segments between separators (empty ones included)
RECURSIVE SplitAcc(_, _, _)
SplitAcc(s, cur, acc) ==
    IF s = <<>> THEN Append(acc, cur)
    ELSE IF Head(s) = Sep THEN SplitAcc(Tail(s), <<>>, Append(acc, cur))
    ELSE SplitAcc(Tail(s), Append(cur, Head(s)), acc)

Split(s) == SplitAcc(s, <<>>, <<>>)

\* sep.join(segments)
RECURSIVE Join(_)
Join(segs) ==
    IF segs = <<>> THEN <<>>
    ELSE IF Len(segs) = 1 THEN Head(segs)
    ELSE Head(segs) \o <<Sep>> \o Join(Tail(segs))

\* os.path.join(a, b) for relative b
PathJoin(a, b) ==
    IF a = <<>> THEN b
    ELSE IF Last(a) = Sep THEN a \o b
    ELSE a \o <<Sep>> \o b

(***************************************************************************)
(* utils/helpers.py                                                        *)
(***************************************************************************)
\* os.path.normpath on a relative path: drops empty and "." segments,
\* folds "x/.." and answers "." for the empty result
RECURSIVE NormSegs(_, _)
NormSegs(segs, acc) ==
    IF segs = <<>> THEN acc
    ELSE LET s == Head(segs) IN
         IF s = <<>> \/ s = <<".">> THEN NormSegs(Tail(segs), acc)
         ELSE IF s = <<".", ".">> /\ acc # <<>> /\ Last(acc) # <<".", ".">>
              THEN NormSegs(Tail(segs), SubSeq(acc, 1, Len(acc) - 1))
         ELSE NormSegs(Tail(segs), Append(acc, s))

normalize_path(p) ==
    LET segs == NormSegs(Split(p), <<>>)
    IN  IF segs = <<>> THEN <<".">> ELSE Join(segs)

\* os.path.exists / isdir / isfile of safe_join_path(root, p), p normalised
Exists(p) == p = <<".">> \/ p = <<>> \/ p \in Dirs \/ p \in Files

IsDir(p) == p = <<".">> \/ p = <<>> \/ p \in Dirs

\* str.lstrip("./"): drops every leading "." and "/" character
RECURSIVE LStripDotSlash(_)
LStripDotSlash(s) ==
    IF s # <<>> /\ Head(s) \in {".", Sep} THEN LStripDotSlash(Tail(s)) ELSE s

\* the duplicate-segment collapse of resolve_repo_path
RECURSIVE DedupSegments(_, _)
DedupSegments(segs, acc) ==
    IF segs = <<>> THEN acc
    ELSE IF acc # <<>> /\ Last(acc) = Head(segs)
         THEN DedupSegments(Tail(segs), acc)
         ELSE DedupSegments(Tail(segs), Append(acc, Head(segs)))

\* os.path.basename
Basename(p) == Last(Split(p))

(***************************************************************************)
(* difflib.SequenceMatcher(None, a, b).ratio() = 2 * M / (|a| + |b|),      *)
(* M the size of the matching blocks: the longest common block (earliest   *)
(* in a, then earliest in b), then recursively left and right of it.       *)
(***************************************************************************)
BlockLen(a, b, i, j, k) ==
    \A d \in 0 .. (k - 1) : a[i + d] = b[j + d]

\* <<i, j, k>>: longest block a[i..i+k-1] = b[j..j+k-1] within the windows
LongestMatch(a, alo, ahi, b, blo, bhi) ==
    LET cands == { t \in (alo .. ahi) \X (blo .. bhi) \X (1 .. (ahi - alo + 1)) :
                     /\ t[1] + t[3] - 1 <= ahi
                     /\ t[2] + t[3] - 1 <= bhi
                     /\ BlockLen(a, b, t[1], t[2], t[3]) }
    IN  IF cands = {} THEN <<alo, blo, 0>>
        ELSE CHOOSE t \in cands :
               \A u \in cands :
                  \/ t[3] > u[3]
                  \/ (t[3] = u[3] /\ t[1] < u[1])
                  \/ (t[3] = u[3] /\ t[1] = u[1] /\ t[2] <= u[2])

RECURSIVE MatchCount(_, _, _, _, _, _)
MatchCount(a, alo, ahi, b, blo, bhi) ==
    IF alo > ahi \/ blo > bhi THEN 0
    ELSE LET m == LongestMatch(a, alo, ahi, b, blo, bhi)
         IN  IF m[3] = 0 THEN 0
             ELSE m[3]
                  + MatchCount(a, alo, m[1] - 1, b, blo, m[2] - 1)
                  + MatchCount(a, m[1] + m[3], ahi, b, m[2] + m[3], bhi)

\* ratio as the pair <<2*M, T>> (a fraction)
Ratio(a, b) == << 2 * MatchCount(a, 1, Len(a), b, 1, Len(b)), Len(a) + Len(b) >>

\* fraction x is strictly greater than fraction y
FracGreater(x, y) == x[1] * y[2] > y[1] * x[2]

\* Path(root).rglob(basename), in walk order
RglobMatches(basename) ==
    SelectSeq(FSWalk, LAMBDA q : Basename(q) = basename)

\* the best-score loop of resolve_repo_path: first match with the top ratio
RECURSIVE BestMatch(_, _, _, _)
BestMatch(normalized, matches, best, bestScore) ==
    IF matches = <<>> THEN best
    ELSE LET rel == normalize_path(Head(matches))
             score == Ratio(normalized, rel)
         IN  IF FracGreater(score, bestScore)
             THEN BestMatch(normalized, Tail(matches), rel, score)
             ELSE BestMatch(normalized, Tail(matches), best, bestScore)

\* variant: without the test of lines 24-26
resolve_repo_path_NoVerbatimTest(candidate) ==
    LET normalized == normalize_path(candidate)
        trimmed == LStripDotSlash(normalized)
        segments == SelectSeq(Split(normalized), LAMBDA s : s # <<>> /\ s # <<".">>)
        dedup_segments == DedupSegments(segments, <<>>)
        dedup_path == Join(dedup_segments)
        trimmed_dedup == LStripDotSlash(dedup_path)
        basename == Basename(normalized)
        matches == RglobMatches(basename)
    IN  IF Exists(trimmed) THEN trimmed
        ELSE IF segments # <<>> /\ dedup_segments # segments /\ Exists(dedup_path)
             THEN dedup_path
        ELSE IF segments # <<>> /\ dedup_segments # segments /\ Exists(trimmed_dedup)
             THEN trimmed_dedup
        ELSE IF basename = <<>> THEN normalized
        ELSE IF matches = <<>> THEN normalized
        ELSE BestMatch(normalized, matches, normalized, <<-1, 1>>)

resolve_repo_path(candidate) ==
    LET normalized == normalize_path(candidate)
        trimmed == LStripDotSlash(normalized)
        segments == SelectSeq(Split(normalized), LAMBDA s : s # <<>> /\ s # <<".">>)
        dedup_segments == DedupSegments(segments, <<>>)
        dedup_path == Join(dedup_segments)
        trimmed_dedup == LStripDotSlash(dedup_path)
        basename == Basename(normalized)
        matches == RglobMatches(basename)
    IN  IF Exists(normalized) THEN normalized
        ELSE IF Exists(trimmed) THEN trimmed
        ELSE IF segments # <<>> /\ dedup_segments # segments /\ Exists(dedup_path)
             THEN dedup_path
        ELSE IF segments # <<>> /\ dedup_segments # segments /\ Exists(trimmed_dedup)
             THEN trimmed_dedup
        ELSE IF basename = <<>> THEN normalized
        ELSE IF matches = <<>> THEN normalized
        ELSE BestMatch(normalized, matches, normalized, <<-1, 1>>)

compute_path_depth(path) ==
    LET rel == normalize_path(path)
    IN  IF rel = <<".">> THEN 0
        ELSE Len(SelectSeq(rel, LAMBDA ch : ch = Sep)) + 1

is_folder_at_max_depth(path) ==
    IsDir(normalize_path(path)) /\ compute_path_depth(path) = max_depth

(***************************************************************************)
(* core/schemas.py: UnsureEntry.  The field reached is a history field: the *)
(* highest evidence level the entry has had (0 Overview, 1 RawContent); it  *)
(* is copied wherever the code copies or rebuilds the entry.                *)
(***************************************************************************)
LevelRank(needed_info) == IF needed_info = "raw_content" THEN 1 ELSE 0

UnsureEntry(path, is_dir, needed_info) ==
    [path |-> path, is_dir |-> is_dir, needed_info |-> needed_info,
     reached |-> LevelRank(needed_info)]

(***************************************************************************)
(* What the model may answer.  A response either raises in                  *)
(* send_message_async (kind "raise"), carries parsed = None (kind "null")   *)
(* or carries the parsed record (kind "ok").                                *)
(***************************************************************************)
\* the sure lists and unsure lists the initial pass may answer with
InitSureLists ==
    { <<>>,
      << <<"h">> >>,
      << <<"a", "/", "b", "/", "c">> >>,
      << <<".", "/", "h">>, <<"h">> >>,
      << <<"h">>, <<"a", "/", "b", "/", "c">> >> }

InitUnsureLists ==
    LET a == UnsureEntry(<<"a">>, TRUE, "file_overview")
        h == UnsureEntry(<<".", "/", "h">>, FALSE, "file_overview")
        c == UnsureEntry(<<"a", "/", "b", "/", "c">>, TRUE, "file_metadata")
        g == UnsureEntry(<<"a", "/", "a", "/", "g">>, FALSE, "raw_content")
    IN  { <<>>, <<a>>, <<h>>, <<c>>, <<a, h>>, <<c, g, a>> }

\* the lists a subfolder pass may answer with, relative to its folder
SubSureLists == { <<>>, << <<"f">> >> }

SubUnsureLists ==
    LET b == UnsureEntry(<<"b">>, TRUE, "raw_content")
        f == UnsureEntry(<<"f">>, FALSE, "file_overview")
    IN  { <<>>, <<b>>, <<f>> }

AnalysisResponses(sureLists, unsureLists) ==
    { [kind |-> "raise", sure |-> <<>>, unsure |-> <<>>],
      [kind |-> "null", sure |-> <<>>, unsure |-> <<>>] }
    \cup { [kind |-> "ok", sure |-> s, unsure |-> u] : s \in sureLists, u \in unsureLists }

InitialResponses ==
    AnalysisResponses({ l \in InitSureLists : Len(l) <= MaxInitLen },
                      { l \in InitUnsureLists : Len(l) <= MaxInitLen })

SubfolderResponses == AnalysisResponses(SubSureLists, SubUnsureLists)

\* the RefinementDecision payloads the model answers with ("medium" is
\* handled exactly as "high" by every reader of the confidence)
ModelVerdicts ==
    { [related |-> TRUE, confidence |-> "high", reasoning |-> "plain"],
      [related |-> FALSE, confidence |-> "high", reasoning |-> "plain"],
      [related |-> FALSE, confidence |-> "low", reasoning |-> "plain"],
      [related |-> TRUE, confidence |-> "medium", reasoning |-> "Directory detected"] }

(***************************************************************************)
(* Task results.  kind: "pending" (in flight), "exc" (the task raised),     *)
(* "none" (refine_entry_async returned response.parsed = None),             *)
(* "decision" (a RefinementDecision), "ok" (a folder analysis result).      *)
(* asked: a verdict request was sent on the refinement session.             *)
(***************************************************************************)
Result(kind, related, confidence, reasoning, asked, sure, unsure) ==
    [kind |-> kind, related |-> related, confidence |-> confidence,
     reasoning |-> reasoning, asked |-> asked, sure |-> sure, unsure |-> unsure]

Pending == Result("pending", FALSE, "low", "", FALSE, <<>>, <<>>)

Raised == Result("exc", FALSE, "low", "", FALSE, <<>>, <<>>)

FolderResult(sure, unsure) == Result("ok", FALSE, "low", "", FALSE, sure, unsure)

Decision(related, confidence, reasoning, asked) ==
    Result("decision", related, confidence, reasoning, asked, <<>>, <<>>)

(***************************************************************************)
(* utils/helpers.py: resolve_needed_info.  unreadable: reading or parsing   *)
(* the file fails; headers: the overview parser found headers.              *)
(***************************************************************************)
\* variant: the evidence is gathered without the directory test of lines 188-193
resolve_needed_info_NoDirectoryTest(entry, unreadable, headers) ==
    LET full_path == normalize_path(entry.path)
        raw == IF full_path \notin Files \/ unreadable THEN "error" ELSE "raw"
    IN  IF entry.needed_info \in {"file_overview", "file_metadata"}
        THEN IF raw = "raw" /\ headers THEN "overview" ELSE raw
        ELSE IF entry.needed_info = "raw_content" THEN raw
        ELSE "error"

resolve_needed_info(entry, unreadable, headers) ==
    LET full_path == normalize_path(entry.path)
        raw == IF full_path \notin Files \/ unreadable THEN "error" ELSE "raw"
    IN  IF IsDir(full_path) THEN "directory"
        ELSE IF entry.needed_info \in {"file_overview", "file_metadata"}
             THEN IF raw = "raw" /\ headers THEN "overview" ELSE raw
        ELSE IF entry.needed_info = "raw_content" THEN raw
        ELSE "error"

(***************************************************************************)
(* analysis/refinement.py: refine_entry_async.  The outcomes of one call:   *)
(* the entry as the call leaves it (entry.path is overwritten with the      *)
(* resolved path) and the task's result.                                    *)
(***************************************************************************)
ResolveEntryPath(entry) == [entry EXCEPT !.path = resolve_repo_path(entry.path)]

\* what the request on the "refinement" session may do: raise, answer with
\* parsed = None, or answer with a RefinementDecision
RefineResponses ==
    { [kind |-> "raise", verdict |-> <<>>], [kind |-> "null", verdict |-> <<>>] }
    \cup { [kind |-> "ok", verdict |-> v] : v \in ModelVerdicts }

\* variant: an evidence error is raised instead of answered (lines 40-48 absent)
VerdictFor_RaiseOnError(extra, response) ==
    IF extra = "directory" THEN Decision(TRUE, "high", "Directory detected", FALSE)
    ELSE IF extra = "error" THEN Raised
    ELSE IF response.kind = "raise" THEN Decision(FALSE, "low", "plain", TRUE)
    ELSE IF response.kind = "null" THEN Result("none", FALSE, "low", "", TRUE, <<>>, <<>>)
    ELSE Decision(response.verdict.related, response.verdict.confidence,
                  response.verdict.reasoning, TRUE)

\* refinement.py 31-123: the verdict for the evidence extra and the response
VerdictFor(extra, response) ==
    IF extra = "directory" THEN Decision(TRUE, "high", "Directory detected", FALSE)
    ELSE IF extra = "error" THEN Decision(FALSE, "low", "plain", FALSE)
    ELSE \* the request on the "refinement" session
         IF response.kind = "raise" THEN Decision(FALSE, "low", "plain", TRUE)
    ELSE IF response.kind = "null" THEN Result("none", FALSE, "low", "", TRUE, <<>>, <<>>)
    ELSE Decision(response.verdict.related, response.verdict.confidence,
                  response.verdict.reasoning, TRUE)

RefineVerdicts(extra) == { VerdictFor(extra, response) : response \in RefineResponses }

refine_entry_async(entry) ==
    LET resolved == ResolveEntryPath(entry)
    IN  { [item |-> entry, result |-> Raised],      \* raised before line 20
          [item |-> resolved, result |-> Raised] }  \* raised after line 20
        \cup { [item |-> resolved, result |-> v] :
                 v \in UNION { RefineVerdicts(resolve_needed_info(resolved, u, h)) :
                                 u \in BOOLEAN, h \in BOOLEAN } }

(***************************************************************************)
(* analysis/subfolder.py: analyze_subfolder_async.                          *)
(***************************************************************************)
HasContent(dir) ==
    IF dir = <<".">> THEN Dirs \cup Files # {}
    ELSE \E q \in Dirs \cup Files :
            /\ Len(q) > Len(dir) + 1
            /\ SubSeq(q, 1, Len(dir) + 1) = dir \o <<Sep>>

Combine(folder_path, rel_path) ==
    IF folder_path = <<".">> THEN normalize_path(rel_path)
    ELSE normalize_path(PathJoin(folder_path, rel_path))

SubfolderSure(folder_path, sure) ==
    [i \in 1 .. Len(sure) |-> resolve_repo_path(Combine(folder_path, sure[i]))]

SubfolderUnsure(folder_path, unsure) ==
    [i \in 1 .. Len(unsure) |->
        UnsureEntry(resolve_repo_path(Combine(folder_path, unsure[i].path)),
                    unsure[i].is_dir, unsure[i].needed_info)]

\* the result for one response of the "subfolder:<path>" session
AnalyzeSubfolder(folder_path, resp) ==
    LET sub_root == normalize_path(folder_path)
    IN  IF ~Exists(sub_root) \/ ~IsDir(sub_root) THEN FolderResult(<<>>, <<>>)
        ELSE IF ~HasContent(sub_root) THEN FolderResult(<<>>, <<>>)
        ELSE IF resp.kind # "ok" THEN FolderResult(<<>>, <<>>)
        ELSE FolderResult(SubfolderSure(folder_path, resp.sure),
                          SubfolderUnsure(folder_path, resp.unsure))

analyze_subfolder_async(folder_path) ==
    { Raised } \cup { AnalyzeSubfolder(folder_path, resp) : resp \in SubfolderResponses }

(***************************************************************************)
(* State of one run of run_analysis (main.py).                              *)
(***************************************************************************)
VARIABLES
    pc,                \* where the coordinator is
    final_sure,        \* main.py: final_sure
    remaining_unsure,  \* main.py: remaining_unsure
    iteration,         \* main.py: iteration
    tasks,             \* process_refinement_batch: tasks, with gathered results
    folder_tasks,      \* main.py: folder_tasks, with gathered results
    pruned_count,      \* main.py: pruned_count of the latest round
    dedup_removed,     \* number of "[DEDUP] Removed duplicate" lines printed
    result_payload,    \* what run_analysis returned
    \* llm/manager.py: one AsyncUnifiedChatManager and the tasks that use it
    async_cache,       \* AsyncUnifiedChatManager._async_cache
    sync_chats,        \* main_chat, refinement_chat, subfolder_chats, reporting_chat
    constructed,       \* per key, the sessions provider.create_chat has returned
    next_id,           \* identity of the next object constructed
    callers,           \* the tasks calling get_async_chat, with what they hold
    \* two runs of run_analysis on one repository with fixed answers
    answers,           \* the answer of every request
    run,               \* 0: any answers; 1, 2: first and second run
    first_payload,     \* what the first run returned
    completion,        \* the order in which the tasks of the gather completed
    \* analysis/fixes.py: one call of _apply_unified_diff
    original_content,  \* its argument original_content
    diff_text,         \* its argument diff_text
    diff_case,         \* how diff_text was made from original_content
    patch_result,      \* what the call returned or raised
    \* utils/helpers.py: one call of resolve_repo_path
    candidate_path,    \* its argument candidate_path
    resolved_path,     \* what the call returned
    \* analysis/refinement.py: one call of refine_entry_async and the batch it is in
    refine_call,
    \* analysis/subfolder.py: one call of analyze_subfolder_async
    subfolder_call,
    \* analysis/reporting.py: one call of report_detailed_async
    report_tasks,      \* the analyze_single_file tasks of the gather
    collected_reports, \* report_detailed_async: collected_reports
    report_result,     \* what the call returned
    \* main.py 423-478: the fixes run_analysis generates for the report entries
    fix_run,
    \* llm/providers/openai.py: one OpenAIChatSession used by several threads
    session_messages,  \* OpenAIChatSession._messages
    chat_threads,      \* the executor threads running send_message
    \* utils/reporting_normalizer.py: one call of coerce_detailed_report_payload
    coerce_call,
    \* main.py and refinement.py: the folder_path of every call of
    \* analyze_subfolder_async that run_analysis has made, in order
    analysed

runvars == <<pc, final_sure, remaining_unsure, iteration, tasks, folder_tasks,
             pruned_count, dedup_removed, result_payload>>

managervars == <<async_cache, sync_chats, constructed, next_id, callers>>

\* the state outside run_analysis
rerunvars == <<answers, run, first_payload, completion>>

patchvars == <<original_content, diff_text, diff_case, patch_result>>

resolvevars == <<candidate_path, resolved_path>>

refinevars == <<refine_call>>

subfoldervars == <<subfolder_call>>

reportvars == <<report_tasks, collected_reports, report_result>>

fixvars == <<fix_run>>

chatvars == <<session_messages, chat_threads>>

coercevars == <<coerce_call>>

historyvars == <<analysed>>

latevars == <<fixvars, chatvars, coercevars, historyvars>>

callvars == <<refinevars, subfoldervars, reportvars, latevars>>

auxvars == <<managervars, rerunvars, patchvars, resolvevars, callvars>>

\* auxvars without analysed
staticvars == <<managervars, rerunvars, patchvars, resolvevars, refinevars,
                subfoldervars, reportvars, fixvars, chatvars, coercevars>>

vars == <<runvars, auxvars>>

\* llm/manager.py 241-251: the context keys get_async_chat knows ("other"
\* stands for any key it does not know)
ChatKeys == {"main", "refinement", "subfolder:a", "reporting"}

RequestedKeys == ChatKeys \cup {"other"}

NoSession == [wrapper |-> 0, chat |-> 0]

\* llm/manager.py 28-31 and 233: a manager as __init__ leaves it
ManagerInit ==
    /\ async_cache = [k \in RequestedKeys |-> NoSession]
    /\ sync_chats = [k \in RequestedKeys |-> 0]
    /\ constructed = [k \in RequestedKeys |-> 0]
    /\ next_id = 1

ManagerIdle == ManagerInit /\ callers = <<>>

NoPayload == [returned |-> FALSE, sure |-> <<>>, still_unsure |-> <<>>]

NoAnswers == [initial |-> <<>>, overview |-> <<>>, raw |-> <<>>, sub |-> <<>>]

\* a single run, its requests answered in any way
RerunIdle ==
    /\ answers = NoAnswers
    /\ run = 0
    /\ first_payload = NoPayload
    /\ completion = <<>>

NoPatch == [kind |-> "none", content |-> <<>>, error |-> "", hunks |-> <<>>,
            steps |-> <<>>]

NoCase == [kind |-> "none", line |-> 0, added |-> <<>>, target |-> <<>>]

PatchIdle ==
    /\ original_content = <<>>
    /\ diff_text = <<>>
    /\ diff_case = NoCase
    /\ patch_result = NoPatch

NotResolved == [kind |-> "none", path |-> <<>>]

ResolveIdle == candidate_path = <<>> /\ resolved_path = NotResolved

NoTask == [type |-> "none"]

NoRefineCall ==
    [stage |-> "idle", unreadable |-> FALSE, headers |-> FALSE,
     response |-> [kind |-> "none", verdict |-> <<>>], task |-> NoTask,
     sibling |-> NoTask, raised |-> FALSE, sure |-> <<>>, unsure |-> <<>>,
     folders |-> <<>>]

RefineIdle == refine_call = NoRefineCall

NoSubfolderCall ==
    [stage |-> "idle", folder_path |-> <<>>, tree_raises |-> FALSE,
     chat_raises |-> FALSE, response |-> [kind |-> "none"],
     result |-> Pending, session_created |-> FALSE, request_sent |-> FALSE]

SubfolderIdle == subfolder_call = NoSubfolderCall

NotReported == [called |-> FALSE, returned |-> FALSE, reports |-> <<>>]

ReportIdle ==
    /\ report_tasks = <<>>
    /\ collected_reports = <<>>
    /\ report_result = NotReported

NoFixCall ==
    [style |-> "none", failure |-> "none", original |-> <<>>, raw_output |-> <<>>]

NoFixResult ==
    [raised |-> FALSE, error |-> "", content |-> <<>>, diff |-> <<>>,
     read |-> FALSE, sent |-> FALSE]

\* fixed_content of a record of generate_single_fix: None or a text
NoContent == [null |-> TRUE, text |-> <<>>]

NoFixRun ==
    [stage |-> "idle", tracker |-> FALSE, final_sure |-> <<>>,
     report_entries |-> <<>>,
     needs_update_entries |-> <<>>, next |-> 1, attempts |-> <<>>,
     fixes |-> <<>>, call |-> NoFixCall, result |-> NoFixResult,
     single |-> [success |-> FALSE, error |-> "", fixed_content |-> NoContent,
                 raised |-> FALSE]]

FixIdle == fix_run = NoFixRun

\* task: the task whose prompt or reply the message carries (0: none)
SystemMessage == [role |-> "system", content |-> "system_instruction", task |-> 0]

ChatIdle == session_messages = <<SystemMessage>> /\ chat_threads = <<>>

\* a value of the raw payload, written as the Python literal
NoRawPayload ==
    [kind |-> "other",
     diagnosis |-> [kind |-> "other", needs_update |-> "None",
                    needs_updates |-> "None", requires_update |-> "None"],
     needs_update |-> "None"]

NoCoerceCall ==
    [stage |-> "idle", raw |-> NoRawPayload,
     report |-> [null |-> TRUE, needs_update |-> FALSE]]

CoerceIdle == coerce_call = NoCoerceCall

HistoryIdle == analysed = <<>>

CallsIdle ==
    /\ RefineIdle /\ SubfolderIdle /\ ReportIdle /\ FixIdle /\ ChatIdle
    /\ CoerceIdle /\ HistoryIdle

AuxIdle == ManagerIdle /\ RerunIdle /\ PatchIdle /\ ResolveIdle /\ CallsIdle

RunInit ==
    /\ pc = "initial"
    /\ final_sure = <<>>
    /\ remaining_unsure = <<>>
    /\ iteration = 0
    /\ tasks = <<>>
    /\ folder_tasks = <<>>
    /\ pruned_count = 0
    /\ dedup_removed = 0
    /\ result_payload = NoPayload

Init == RunInit /\ AuxIdle

FolderTask(path) == [type |-> "folder", item |-> path, result |-> Pending]

DispatchFolders(paths) == [i \in 1 .. Len(paths) |-> FolderTask(paths[i])]

\* variant: the gather returns as soon as one task has completed
AllDone_FirstCompleted(ts) ==
    ts = <<>> \/ \E i \in DOMAIN ts : ts[i].result.kind # "pending"

AllDone(ts) == \A i \in DOMAIN ts : ts[i].result.kind # "pending"

\* variant: the results are taken in the order the tasks completed
Gathered_CompletionOrder(ts, order) ==
    IF Len(order) = Len(ts) THEN [i \in 1 .. Len(ts) |-> ts[order[i]]] ELSE ts

\* asyncio.gather (refinement.py 159, main.py 308 and 355): the results come
\* in the order of the tasks, whatever the order of their completion
Gathered(ts, order) == ts

\* main.py 310-316 and 357-364: what the gathered folder results add
FolderSure(ts) ==
    Flatten([i \in 1 .. Len(ts) |->
               IF ts[i].result.kind = "exc" THEN <<>> ELSE ts[i].result.sure])

FolderUnsure(ts) ==
    Flatten([i \in 1 .. Len(ts) |->
               IF ts[i].result.kind = "exc" THEN <<>> ELSE ts[i].result.unsure])

(***************************************************************************)
(* main.py 266-308: the initial pass, the split of its sure list and the    *)
(* dispatch of the sure folders at max depth.  A response that raises, or   *)
(* whose parsed payload is None (initial.sure on None), ends run_analysis   *)
(* with an exception.                                                       *)
(***************************************************************************)
IsInitialSureFolder(resolved_item) ==
    IsDir(normalize_path(resolved_item)) /\ is_folder_at_max_depth(resolved_item)

ResolveAll(paths) == [i \in 1 .. Len(paths) |-> resolve_repo_path(paths[i])]

InitialSureFolders(sure) ==
    SelectSeq(ResolveAll(sure), LAMBDA r : IsInitialSureFolder(r))

InitialSureFiles(sure) ==
    SelectSeq(ResolveAll(sure), LAMBDA r : ~IsInitialSureFolder(r))

InitialPass ==
    /\ pc = "initial"
    /\ \E response \in InitialResponses :
         IF response.kind # "ok"
         THEN /\ pc' = "raised"
              /\ UNCHANGED <<final_sure, remaining_unsure, folder_tasks, analysed>>
         ELSE LET initial_sure_folders == InitialSureFolders(response.sure)
              IN  /\ final_sure' = InitialSureFiles(response.sure)
                  /\ remaining_unsure' = response.unsure
                  /\ folder_tasks' = DispatchFolders(initial_sure_folders)
                  /\ analysed' = analysed \o initial_sure_folders
                  /\ pc' = IF initial_sure_folders # <<>> THEN "sure_folders" ELSE "loop"
    /\ UNCHANGED <<iteration, tasks, pruned_count, dedup_removed, result_payload>>
    /\ UNCHANGED staticvars

\* one analyze_subfolder_async task of a main.py gather completes
FolderTaskDone ==
    /\ pc \in {"sure_folders", "folders"}
    /\ \E i \in DOMAIN folder_tasks :
         /\ folder_tasks[i].result.kind = "pending"
         /\ \E r \in analyze_subfolder_async(folder_tasks[i].item) :
              folder_tasks' = [folder_tasks EXCEPT ![i].result = r]
    /\ UNCHANGED <<pc, final_sure, remaining_unsure, iteration, tasks, pruned_count, dedup_removed, result_payload>>
    /\ UNCHANGED auxvars

\* main.py 308-316: join of the sure-folder batch
MergeSureFolders ==
    /\ pc = "sure_folders"
    /\ AllDone(folder_tasks)
    /\ final_sure' = final_sure \o FolderSure(Gathered(folder_tasks, completion))
    /\ remaining_unsure' =
          remaining_unsure \o FolderUnsure(Gathered(folder_tasks, completion))
    /\ pc' = "loop"
    /\ folder_tasks' = <<>>
    /\ UNCHANGED <<iteration, tasks, pruned_count, dedup_removed, result_payload>>
    /\ UNCHANGED auxvars

(***************************************************************************)
(* main.py 322-336 and refinement.py 146-159: the loop test, and the        *)
(* dispatch of the round's batch.                                           *)
(***************************************************************************)
\* variant: the loop test without the emptiness test
LoopCondition_CapOnly(unsure, iter) == iter < max_iterations

LoopCondition(unsure, iter) == unsure # <<>> /\ iter < max_iterations

BatchTask(entry) ==
    IF entry.is_dir /\ is_folder_at_max_depth(entry.path)
    THEN [type |-> "folder", item |-> entry, result |-> Pending]
    ELSE [type |-> "file", item |-> entry, result |-> Pending]

\* refinement.py 146-150: the folder_path of the folder tasks of a batch
BatchFolders(entries) ==
    Flatten([i \in 1 .. Len(entries) |->
               IF BatchTask(entries[i]).type = "folder" THEN <<entries[i].path>>
               ELSE <<>>])

StartRound ==
    /\ pc = "loop"
    /\ LoopCondition(remaining_unsure, iteration)
    /\ iteration' = iteration + 1
    /\ tasks' = [i \in 1 .. Len(remaining_unsure) |-> BatchTask(remaining_unsure[i])]
    /\ analysed' = analysed \o BatchFolders(remaining_unsure)
    /\ remaining_unsure' = <<>>
    /\ pc' = "batch"
    /\ UNCHANGED <<final_sure, folder_tasks, pruned_count, dedup_removed, result_payload>>
    /\ UNCHANGED staticvars

\* one task of the batch completes
BatchTaskDone ==
    /\ pc = "batch"
    /\ \E i \in DOMAIN tasks :
         /\ tasks[i].result.kind = "pending"
         /\ IF tasks[i].type = "folder"
            THEN \E r \in analyze_subfolder_async(tasks[i].item.path) :
                    tasks' = [tasks EXCEPT ![i].result = r]
            ELSE \E o \in refine_entry_async(tasks[i].item) :
                    tasks' = [tasks EXCEPT ![i].item = o.item, ![i].result = o.result]
    /\ UNCHANGED <<pc, final_sure, remaining_unsure, iteration, folder_tasks, pruned_count, dedup_removed, result_payload>>
    /\ UNCHANGED auxvars

(***************************************************************************)
(* refinement.py 161-213: processing of the gathered results.               *)
(***************************************************************************)
IsRedirect(t) ==
    t.type = "file" /\ t.result.kind = "decision"
    /\ t.result.reasoning = "Directory detected"

\* line 186 reads decision.related: a None decision raises AttributeError
BatchRaises(ts) == \E i \in DOMAIN ts : ts[i].type = "file" /\ ts[i].result.kind = "none"

TaskSure(t) ==
    IF t.result.kind = "exc" THEN <<>>
    ELSE IF t.type = "folder" THEN t.result.sure
    ELSE IF IsRedirect(t) THEN <<>>
    ELSE IF t.result.related THEN <<t.item.path>>
    ELSE <<>>

TaskUnsure(t) ==
    IF t.result.kind = "exc"
    THEN IF t.type = "file" THEN <<t.item>> ELSE <<>>
    ELSE IF t.type = "folder" THEN t.result.unsure
    ELSE <<>>

TaskFolders(t) ==
    IF t.result.kind # "exc" /\ IsRedirect(t) THEN <<t.item.path>> ELSE <<>>

BatchSure(ts) == Flatten([i \in 1 .. Len(ts) |-> TaskSure(ts[i])])

BatchUnsure(ts) == Flatten([i \in 1 .. Len(ts) |-> TaskUnsure(ts[i])])

FoldersToAnalyze(ts) == Flatten([i \in 1 .. Len(ts) |-> TaskFolders(ts[i])])

\* refinement.py 159-213 and main.py 338-355: join of the batch, merge of its
\* results and dispatch of the discovered folders
MergeBatch ==
    /\ pc = "batch"
    /\ AllDone(tasks)
    /\ LET results == Gathered(tasks, completion)
       IN  IF BatchRaises(results)
           THEN /\ pc' = "raised"
                /\ UNCHANGED <<final_sure, remaining_unsure, folder_tasks, analysed>>
           ELSE /\ final_sure' = final_sure \o BatchSure(results)
                /\ remaining_unsure' = remaining_unsure \o BatchUnsure(results)
                /\ folder_tasks' = DispatchFolders(FoldersToAnalyze(results))
                /\ analysed' = analysed \o FoldersToAnalyze(results)
                /\ pc' = IF FoldersToAnalyze(results) # <<>> THEN "folders" ELSE "escalate"
    /\ UNCHANGED <<iteration, tasks, pruned_count, dedup_removed, result_payload>>
    /\ UNCHANGED staticvars

\* main.py 355-364: join of the discovered-folder batch
MergeFolders ==
    /\ pc = "folders"
    /\ AllDone(folder_tasks)
    /\ final_sure' = final_sure \o FolderSure(Gathered(folder_tasks, completion))
    /\ remaining_unsure' =
          remaining_unsure \o FolderUnsure(Gathered(folder_tasks, completion))
    /\ pc' = "escalate"
    /\ UNCHANGED <<iteration, tasks, folder_tasks, pruned_count, dedup_removed, result_payload>>
    /\ UNCHANGED auxvars

(***************************************************************************)
(* main.py 366-401: the escalation policy.  EscalateEntry is what one       *)
(* entry leaves in escalated_entries.                                       *)
(***************************************************************************)
\* variant: a raw_content entry is queued again at file_overview
EscalateEntry_Regress(entry, iter) ==
    IF iter < max_iterations
    THEN IF entry.needed_info \in {"file_overview", "file_metadata"}
         THEN << [path |-> entry.path, is_dir |-> entry.is_dir,
                  needed_info |-> "raw_content",
                  reached |-> IF entry.reached > 1 THEN entry.reached ELSE 1] >>
         ELSE << [entry EXCEPT !.needed_info = "file_overview"] >>
    ELSE <<>>

\* variant: the round at the cap keeps the entries
EscalateEntry_KeepAtCap(entry, iter) ==
    IF iter < max_iterations
    THEN IF entry.needed_info \in {"file_overview", "file_metadata"}
         THEN << [path |-> entry.path, is_dir |-> entry.is_dir,
                  needed_info |-> "raw_content",
                  reached |-> IF entry.reached > 1 THEN entry.reached ELSE 1] >>
         ELSE <<>>
    ELSE <<entry>>

\* variant: an Overview-level entry is queued again as it is
EscalateEntry_KeepLevel(entry, iter) ==
    IF iter < max_iterations
    THEN IF entry.needed_info \in {"file_overview", "file_metadata"}
         THEN <<entry>>
         ELSE <<>>
    ELSE <<>>

\* variant: a raw_content entry below the cap is queued again
EscalateEntry_RetryRaw(entry, iter) ==
    IF iter < max_iterations
    THEN IF entry.needed_info \in {"file_overview", "file_metadata"}
         THEN << [path |-> entry.path, is_dir |-> entry.is_dir,
                  needed_info |-> "raw_content",
                  reached |-> IF entry.reached > 1 THEN entry.reached ELSE 1] >>
         ELSE <<entry>>
    ELSE <<>>

EscalateEntry(entry, iter) ==
    IF iter < max_iterations
    THEN IF entry.needed_info \in {"file_overview", "file_metadata"}
         THEN << [path |-> entry.path, is_dir |-> entry.is_dir,
                  needed_info |-> "raw_content",
                  reached |-> IF entry.reached > 1 THEN entry.reached ELSE 1] >>
         ELSE IF entry.needed_info = "raw_content" THEN <<>>
         ELSE IF entry.is_dir
              THEN IF ~is_folder_at_max_depth(entry.path) THEN <<entry>> ELSE <<>>
         ELSE <<>>
    ELSE <<>>

Escalate ==
    /\ pc = "escalate"
    /\ remaining_unsure' =
          Flatten([i \in 1 .. Len(remaining_unsure) |->
                     EscalateEntry(remaining_unsure[i], iteration)])
    /\ pc' = "loop"
    /\ pruned_count' = Len(remaining_unsure) - Len(remaining_unsure')
    /\ tasks' = <<>>
    /\ folder_tasks' = <<>>
    /\ UNCHANGED <<final_sure, iteration, dedup_removed, result_payload>>
    /\ UNCHANGED auxvars

(***************************************************************************)
(* main.py 405-418: deduplication of the accumulated sure list.             *)
(***************************************************************************)
DedupKey(path) == normalize_path(resolve_repo_path(path))

\* variant: the loop appends without consulting seen_paths
RECURSIVE Deduplicate_NoSeen(_, _)
Deduplicate_NoSeen(paths, normalized_final) ==
    IF paths = <<>> THEN normalized_final
    ELSE Deduplicate_NoSeen(Tail(paths), Append(normalized_final, DedupKey(Head(paths))))

RECURSIVE Deduplicate(_, _)
Deduplicate(paths, normalized_final) ==
    IF paths = <<>> THEN normalized_final
    ELSE LET normalized == DedupKey(Head(paths))
         IN  IF normalized \notin Range(normalized_final)
             THEN Deduplicate(Tail(paths), Append(normalized_final, normalized))
             ELSE Deduplicate(Tail(paths), normalized_final)

Dedup ==
    /\ pc = "loop"
    /\ ~LoopCondition(remaining_unsure, iteration)
    /\ final_sure' = Deduplicate(final_sure, <<>>)
    /\ dedup_removed' = Len(final_sure) - Len(final_sure')
    /\ pc' = "report"
    /\ UNCHANGED <<remaining_unsure, iteration, tasks, folder_tasks, pruned_count,
                   result_payload>>
    /\ UNCHANGED auxvars

\* main.py 421-517: detailed reporting, then the result payload is returned
Return ==
    /\ pc = "report"
    /\ result_payload' = [returned |-> TRUE, sure |-> final_sure,
                          still_unsure |-> remaining_unsure]
    /\ pc' = "done"
    /\ UNCHANGED <<final_sure, remaining_unsure, iteration, tasks, folder_tasks,
                   pruned_count, dedup_removed>>
    /\ UNCHANGED auxvars

Next ==
    \/ InitialPass
    \/ FolderTaskDone
    \/ MergeSureFolders
    \/ StartRound
    \/ BatchTaskDone
    \/ MergeBatch
    \/ MergeFolders
    \/ Escalate
    \/ Dedup
    \/ Return

Spec == Init /\ [][Next]_vars

(***************************************************************************)
(* run_analysis on initial passes that report directories of every depth as *)
(* sure.                                                                    *)
(***************************************************************************)
DirectorySureLists ==
    { << <<"a">> >>,
      << <<"a", "/", "b">>, <<"a", "/", "b", "/", "c">> >>,
      << <<"e">>, <<"h">> >> }

DirectoryResponses == AnalysisResponses(DirectorySureLists, { <<>> })

\* main.py 266-308, as InitialPass
InitialPassWithDirectories ==
    /\ pc = "initial"
    /\ \E response \in DirectoryResponses :
         IF response.kind # "ok"
         THEN /\ pc' = "raised"
              /\ UNCHANGED <<final_sure, remaining_unsure, folder_tasks, analysed>>
         ELSE LET initial_sure_folders == InitialSureFolders(response.sure)
              IN  /\ final_sure' = InitialSureFiles(response.sure)
                  /\ remaining_unsure' = response.unsure
                  /\ folder_tasks' = DispatchFolders(initial_sure_folders)
                  /\ analysed' = analysed \o initial_sure_folders
                  /\ pc' = IF initial_sure_folders # <<>> THEN "sure_folders" ELSE "loop"
    /\ UNCHANGED <<iteration, tasks, pruned_count, dedup_removed, result_payload>>
    /\ UNCHANGED staticvars

DirectoryNext ==
    \/ InitialPassWithDirectories
    \/ FolderTaskDone
    \/ MergeSureFolders
    \/ StartRound
    \/ BatchTaskDone
    \/ MergeBatch
    \/ MergeFolders
    \/ Escalate
    \/ Dedup
    \/ Return

DirectorySpec == Init /\ [][DirectoryNext]_vars

\* every dispatched task completes and the coordinator keeps running
FairSpec == Spec /\ WF_vars(Next)

TypeOK ==
    /\ pc \in {"initial", "sure_folders", "loop", "batch", "folders", "escalate",
               "report", "done", "raised"}
    /\ iteration \in 0 .. max_iterations

(***************************************************************************)
(* llm/manager.py: AsyncUnifiedChatManager.get_async_chat, called by the    *)
(* tasks of a batch.  The method is a plain function called from the        *)
(* coroutines on the event-loop thread: it holds no await, so a call runs   *)
(* from its cache test to its return without another task running.          *)
(***************************************************************************)
Caller(key) == [key |-> key, at |-> "call", session |-> NoSession]

CallerBatches ==
    UNION { [1 .. n -> { Caller(k) : k \in RequestedKeys }] : n \in 0 .. MaxCallers }

\* variant: the cache test of line 237 never finds the key
CachedSession_Miss(cache, chat_key) == NoSession

\* llm/manager.py 237-238
CachedSession(cache, chat_key) == cache[chat_key]

BatchCalls ==
    /\ callers = <<>>
    /\ next_id = 1
    /\ callers' \in CallerBatches \ {<<>>}
    /\ UNCHANGED <<async_cache, sync_chats, constructed, next_id>>
    /\ UNCHANGED <<runvars, rerunvars, patchvars, resolvevars, callvars>>

GetAsyncChat(i) ==
    /\ callers[i].at = "call"
    /\ LET chat_key == callers[i].key
           cached == CachedSession(async_cache, chat_key)
       IN  IF cached # NoSession
           THEN /\ callers' = [callers EXCEPT ![i].at = "has", ![i].session = cached]
                /\ UNCHANGED <<async_cache, sync_chats, constructed, next_id>>
           ELSE IF chat_key \notin ChatKeys
           THEN \* line 251: ValueError
                /\ callers' = [callers EXCEPT ![i].at = "raised"]
                /\ UNCHANGED <<async_cache, sync_chats, constructed, next_id>>
           ELSE IF sync_chats[chat_key] # 0
           THEN \* the sync getter returns the session it already holds
                LET async_chat == [wrapper |-> next_id, chat |-> sync_chats[chat_key]]
                IN  /\ async_cache' = [async_cache EXCEPT ![chat_key] = async_chat]
                    /\ callers' = [callers EXCEPT ![i].at = "has", ![i].session = async_chat]
                    /\ next_id' = next_id + 1
                    /\ UNCHANGED <<sync_chats, constructed>>
           ELSE \/ \* _create_chat_with_retry returns a new session
                   LET async_chat == [wrapper |-> next_id + 1, chat |-> next_id]
                   IN  /\ sync_chats' = [sync_chats EXCEPT ![chat_key] = next_id]
                       /\ constructed' = [constructed EXCEPT ![chat_key] = @ + 1]
                       /\ async_cache' = [async_cache EXCEPT ![chat_key] = async_chat]
                       /\ callers' = [callers EXCEPT ![i].at = "has", ![i].session = async_chat]
                       /\ next_id' = next_id + 2
                \/ \* _create_chat_with_retry raises: nothing is stored
                   /\ callers' = [callers EXCEPT ![i].at = "raised"]
                   /\ UNCHANGED <<async_cache, sync_chats, constructed, next_id>>
    /\ UNCHANGED <<runvars, rerunvars, patchvars, resolvevars, callvars>>

\* core/abstractions.py 61-68: a task sends its request on the session it holds
SendMessageAsync(i) ==
    /\ callers[i].at = "has"
    /\ callers' = [callers EXCEPT ![i].at = "sent"]
    /\ UNCHANGED <<async_cache, sync_chats, constructed, next_id>>
    /\ UNCHANGED <<runvars, rerunvars, patchvars, resolvevars, callvars>>

ManagerNext ==
    \/ BatchCalls
    \/ \E i \in DOMAIN callers : GetAsyncChat(i)
    \/ \E i \in DOMAIN callers : SendMessageAsync(i)

ManagerSpec == Init /\ [][ManagerNext]_vars

(***************************************************************************)
(* Two runs of run_analysis, one after the other, on one repository and     *)
(* with fixed answers: the initial request, every Overview-level verdict    *)
(* request, every raw_content verdict request and every subfolder request   *)
(* each has one answer, the same in both runs.  The tasks of a gather       *)
(* complete in any order.                                                   *)
(***************************************************************************)
FixedInitialResponses ==
    { r \in InitialResponses : r.kind = "ok" /\ Len(r.unsure) >= 2 }

FixedVerdicts ==
    { Raised,
      Result("none", FALSE, "low", "", TRUE, <<>>, <<>>),
      Decision(TRUE, "high", "plain", TRUE),
      Decision(FALSE, "low", "plain", TRUE) }

FixedSubfolderResponses == { r \in SubfolderResponses : r.kind = "ok" }

FixedAnswers ==
    [initial : FixedInitialResponses, overview : FixedVerdicts, raw : FixedVerdicts,
     sub : FixedSubfolderResponses]

\* refine_entry_async under the fixed answers
FixedRefine(entry) ==
    LET resolved == ResolveEntryPath(entry)
        extra == resolve_needed_info(resolved, FALSE, TRUE)
        verdict == IF entry.needed_info = "raw_content" THEN answers.raw
                   ELSE answers.overview
    IN  [item |-> resolved,
         result |-> IF extra \in {"directory", "error"}
                    THEN CHOOSE v \in RefineVerdicts(extra) : TRUE
                    ELSE verdict]

NextCompletion(ts, i) ==
    IF \A j \in DOMAIN ts : ts[j].result.kind = "pending"
    THEN <<i>> ELSE Append(completion, i)

FixedInitialPass ==
    /\ pc = "initial"
    /\ LET response == answers.initial
           initial_sure_folders == InitialSureFolders(response.sure)
       IN  /\ final_sure' = InitialSureFiles(response.sure)
           /\ remaining_unsure' = response.unsure
           /\ folder_tasks' = DispatchFolders(initial_sure_folders)
           /\ pc' = IF initial_sure_folders # <<>> THEN "sure_folders" ELSE "loop"
    /\ UNCHANGED <<iteration, tasks, pruned_count, dedup_removed, result_payload>>
    /\ UNCHANGED auxvars

FixedFolderTaskDone ==
    /\ pc \in {"sure_folders", "folders"}
    /\ \E i \in DOMAIN folder_tasks :
         /\ folder_tasks[i].result.kind = "pending"
         /\ folder_tasks' =
               [folder_tasks EXCEPT
                  ![i].result = AnalyzeSubfolder(folder_tasks[i].item, answers.sub)]
         /\ completion' = NextCompletion(folder_tasks, i)
    /\ UNCHANGED <<pc, final_sure, remaining_unsure, iteration, tasks, pruned_count,
                   dedup_removed, result_payload>>
    /\ UNCHANGED <<managervars, answers, run, first_payload, patchvars, resolvevars, callvars>>

FixedBatchTaskDone ==
    /\ pc = "batch"
    /\ \E i \in DOMAIN tasks :
         /\ tasks[i].result.kind = "pending"
         /\ IF tasks[i].type = "folder"
            THEN tasks' = [tasks EXCEPT
                             ![i].result = AnalyzeSubfolder(tasks[i].item.path, answers.sub)]
            ELSE LET o == FixedRefine(tasks[i].item)
                 IN  tasks' = [tasks EXCEPT ![i].item = o.item, ![i].result = o.result]
         /\ completion' = NextCompletion(tasks, i)
    /\ UNCHANGED <<pc, final_sure, remaining_unsure, iteration, folder_tasks,
                   pruned_count, dedup_removed, result_payload>>
    /\ UNCHANGED <<managervars, answers, run, first_payload, patchvars, resolvevars, callvars>>

\* the first run is over: the pipeline is run again
Rerun ==
    /\ run = 1
    /\ pc \in {"done", "raised"}
    /\ first_payload' = result_payload
    /\ run' = 2
    /\ pc' = "initial"
    /\ final_sure' = <<>>
    /\ remaining_unsure' = <<>>
    /\ iteration' = 0
    /\ tasks' = <<>>
    /\ folder_tasks' = <<>>
    /\ pruned_count' = 0
    /\ dedup_removed' = 0
    /\ result_payload' = NoPayload
    /\ completion' = <<>>
    /\ UNCHANGED <<managervars, answers, patchvars, resolvevars, callvars>>

RerunInit ==
    /\ RunInit
    /\ ManagerIdle
    /\ answers \in FixedAnswers
    /\ run = 1
    /\ first_payload = NoPayload
    /\ completion = <<>>
    /\ PatchIdle
    /\ ResolveIdle
    /\ CallsIdle

RerunNext ==
    \/ FixedInitialPass
    \/ FixedFolderTaskDone
    \/ MergeSureFolders
    \/ StartRound
    \/ FixedBatchTaskDone
    \/ MergeBatch
    \/ MergeFolders
    \/ Escalate
    \/ Dedup
    \/ Return
    \/ Rerun

RerunSpec == RerunInit /\ [][RerunNext]_vars

(***************************************************************************)
(* analysis/fixes.py: CodeFixGenerator._apply_unified_diff.  A text is the  *)
(* sequence of its characters; the only line boundary in the texts of the   *)
(* model is "\n".                                                           *)
(***************************************************************************)
NL == "\n"

Digits == <<"0", "1", "2", "3", "4", "5", "6", "7", "8", "9">>

IsDigit(c) == \E d \in DOMAIN Digits : Digits[d] = c

DigitValue(c) == (CHOOSE d \in DOMAIN Digits : Digits[d] = c) - 1

\* str.splitlines(keepends)
RECURSIVE SplitLinesAcc(_, _, _, _)
SplitLinesAcc(text, cur, acc, keepends) ==
    IF text = <<>> THEN (IF cur = <<>> THEN acc ELSE Append(acc, cur))
    ELSE IF Head(text) = NL
         THEN SplitLinesAcc(Tail(text), <<>>,
                            Append(acc, IF keepends THEN Append(cur, NL) ELSE cur),
                            keepends)
    ELSE SplitLinesAcc(Tail(text), Append(cur, Head(text)), acc, keepends)

SplitLines(text, keepends) == SplitLinesAcc(text, <<>>, <<>>, keepends)

StartsWith(line, prefix) ==
    Len(line) >= Len(prefix) /\ SubSeq(line, 1, Len(prefix)) = prefix

\* the in operator on strings
Contains(text, sub) ==
    \E i \in 0 .. Len(text) - Len(sub) : SubSeq(text, i + 1, i + Len(sub)) = sub

\* not line.strip()
IsBlank(line) == \A i \in DOMAIN line : line[i] \in {" ", NL}

\* str.rstrip("\n")
RECURSIVE RStripNL(_)
RStripNL(line) ==
    IF line # <<>> /\ line[Len(line)] = NL
    THEN RStripNL(SubSeq(line, 1, Len(line) - 1)) ELSE line

\* original_lines[lo:hi]
Slice(lines, lo, hi) ==
    LET h == IF hi > Len(lines) THEN Len(lines) ELSE hi
    IN  IF lo >= h THEN <<>> ELSE SubSeq(lines, lo + 1, h)

HunkMark == <<"@", "@">>

MinusHeader == <<"-", "-", "-">>

PlusHeader == <<"+", "+", "+">>

\* the backslash, then the rest of the marker as one symbol
NoNewlineMarker == <<"\\", " No newline at end of file">>

\* the position after the digits that start at pos
RECURSIVE DigitsEnd(_, _)
DigitsEnd(line, pos) ==
    IF pos <= Len(line) /\ IsDigit(line[pos]) THEN DigitsEnd(line, pos + 1) ELSE pos

RECURSIVE NatOf(_, _)
NatOf(digits, acc) ==
    IF digits = <<>> THEN acc
    ELSE NatOf(Tail(digits), acc * 10 + DigitValue(Head(digits)))

\* the position after (?:,\d+)? matched at pos
OptionalCount(line, pos) ==
    IF pos <= Len(line) /\ line[pos] = "," /\ DigitsEnd(line, pos + 1) > pos + 1
    THEN DigitsEnd(line, pos + 1) ELSE pos

\* re.match(r"@@ -(\d+)(?:,\d+)? \+(\d+)(?:,\d+)? @@", line): whether it
\* matches, and group 1 as an integer
HunkHeader(line) ==
    LET e1 == DigitsEnd(line, 5)
        c1 == OptionalCount(line, e1)
        e2 == DigitsEnd(line, c1 + 2)
        c2 == OptionalCount(line, e2)
        matched ==
            /\ StartsWith(line, <<"@", "@", " ", "-">>)
            /\ e1 > 5
            /\ Len(line) >= c1 + 1 /\ SubSeq(line, c1, c1 + 1) = <<" ", "+">>
            /\ e2 > c1 + 2
            /\ Len(line) >= c2 + 2 /\ SubSeq(line, c2, c2 + 2) = <<" ", "@", "@">>
    IN  [matched |-> matched,
         start_line |-> IF matched THEN NatOf(SubSeq(line, 5, e1 - 1), 0) ELSE 0]

\* variant: the overlap test of line 315 never fires
Overlaps_Never(hunk_start, orig_index) == FALSE

\* fixes.py 315
Overlaps(hunk_start, orig_index) == hunk_start < orig_index

\* variant: the headers test of line 294 never holds
HasHeaders_Never(text) == FALSE

\* fixes.py 294
HasHeaders(text) == Contains(text, MinusHeader) /\ Contains(text, PlusHeader)

\* fixes.py 292
HasHunk(diff_lines) ==
    \E i \in DOMAIN diff_lines : StartsWith(diff_lines[i], HunkMark)

PatchFailed(st, error) == [st EXCEPT !.error = error]

\* fixes.py 310-319: a line that starts with "@@".  hunks records, for each
\* header the pattern matches, its start_line and the cursor it found
HunkHeaderLine(st, original_lines, line) ==
    LET header == HunkHeader(line)
        hunk_start == (IF header.start_line > 1 THEN header.start_line ELSE 1) - 1
        seen == Append(st.hunks, [start_line |-> header.start_line,
                                  cursor |-> st.orig_index])
    IN  IF ~header.matched THEN [st EXCEPT !.in_hunk = TRUE]
        ELSE IF Overlaps(hunk_start, st.orig_index)
        THEN [PatchFailed(st, "Diff hunk overlaps with previous content")
                EXCEPT !.hunks = seen]
        ELSE [st EXCEPT !.patched_lines =
                           @ \o Slice(original_lines, st.orig_index, hunk_start),
                        !.orig_index = hunk_start,
                        !.in_hunk = TRUE,
                        !.hunks = seen]

\* fixes.py 322-349: a line of the body of a hunk
HunkBodyLine(st, original_lines, hunk_line) ==
    IF StartsWith(hunk_line, MinusHeader) \/ StartsWith(hunk_line, PlusHeader)
    THEN st
    ELSE IF StartsWith(hunk_line, NoNewlineMarker)
    THEN IF st.patched_lines # <<>>
         THEN [st EXCEPT !.patched_lines[Len(st.patched_lines)] = RStripNL(@)]
         ELSE st
    ELSE IF StartsWith(hunk_line, <<" ">>)
    THEN IF st.orig_index >= Len(original_lines)
         THEN PatchFailed(st, "Context line exceeds original file length")
         ELSE [st EXCEPT !.patched_lines = Append(@, original_lines[st.orig_index + 1]),
                         !.orig_index = @ + 1]
    ELSE IF StartsWith(hunk_line, <<"-">>)
    THEN [st EXCEPT !.orig_index = @ + 1]
    ELSE IF StartsWith(hunk_line, <<"+">>)
    THEN [st EXCEPT !.patched_lines = Append(@, Append(Tail(hunk_line), NL))]
    ELSE IF IsBlank(hunk_line)
    THEN [st EXCEPT !.patched_lines = Append(@, <<NL>>)]
    ELSE PatchFailed(st, "Unrecognized diff line")

\* the record of one turn of the loops: the diff line, whether it is read
\* as a line of the body of a hunk (322-349), orig_index and patched_lines
\* before and after it, and whether it raised
Step(st, line, next) ==
    [next EXCEPT !.steps =
        Append(@, [line |-> line,
                   body |-> st.in_hunk /\ ~StartsWith(line, HunkMark),
                   cursor |-> st.orig_index, after |-> next.orig_index,
                   before |-> st.patched_lines, patched |-> next.patched_lines,
                   raised |-> next.error # ""])]

\* fixes.py 303-352: the two loops, one diff line at a time
RECURSIVE ApplyDiffLines(_, _, _)
ApplyDiffLines(st, original_lines, diff_lines) ==
    IF diff_lines = <<>> \/ st.error # "" THEN st
    ELSE ApplyDiffLines(
            Step(st, Head(diff_lines),
                 IF StartsWith(Head(diff_lines), HunkMark)
                 THEN HunkHeaderLine(st, original_lines, Head(diff_lines))
                 ELSE IF ~st.in_hunk THEN st
                 ELSE HunkBodyLine(st, original_lines, Head(diff_lines))),
            original_lines, Tail(diff_lines))

PatchRaised(error, hunks, steps) ==
    [kind |-> "error", content |-> <<>>, error |-> error, hunks |-> hunks,
     steps |-> steps]

Patched(content, hunks, steps) ==
    [kind |-> "ok", content |-> content, error |-> "", hunks |-> hunks,
     steps |-> steps]

apply_unified_diff(original, diff) ==
    LET diff_lines == SplitLines(diff, FALSE)
        original_lines == SplitLines(original, TRUE)
        st == ApplyDiffLines([orig_index |-> 0, patched_lines |-> <<>>,
                              in_hunk |-> FALSE, error |-> "", hunks |-> <<>>,
                              steps |-> <<>>],
                             original_lines, diff_lines)
    IN  IF diff = <<>> THEN Patched(original, <<>>, <<>>)
        ELSE IF ~HasHunk(diff_lines)
        THEN IF HasHeaders(diff) THEN Patched(original, <<>>, <<>>)
             ELSE PatchRaised("Diff output does not contain any hunks", <<>>, <<>>)
        ELSE IF st.error # "" THEN PatchRaised(st.error, st.hunks, st.steps)
        ELSE Patched(Flatten(st.patched_lines
                             \o Slice(original_lines, st.orig_index, Len(original_lines))),
                     st.hunks, st.steps)

(***************************************************************************)
(* The calls of _apply_unified_diff the model makes: an original content    *)
(* of up to MaxLines lines and a diff_text of one of the shapes below.      *)
(***************************************************************************)
SourceLines == { <<"a">>, <<"b">>, <<"c">>, <<"-", "-", "b">> }

AddedTexts == { <<"B">>, <<"+", "+", "c">> }

JoinLines(lines) == Flatten([i \in 1 .. Len(lines) |-> Append(lines[i], NL)])

\* contents of n lines: each line ends with "\n", but the last may not
Originals ==
    LET terminated == { JoinLines(ls) :
                          ls \in UNION { [1 .. n -> SourceLines] : n \in 0 .. MaxLines } }
    IN  terminated \cup { RStripNL(t) : t \in terminated }

FileHeaders == <<MinusHeader \o <<" ", "x">>, PlusHeader \o <<" ", "x">>>>

HunkHeaderText(start) ==
    <<"@", "@", " ", "-">> \o <<Digits[start + 1]>> \o <<" ", "+">> \o <<Digits[start + 1]>>
    \o <<" ", "@", "@">>

\* the diff that replaces line k of lines by added, the other lines as context
ReplacementDiff(lines, k, added) ==
    JoinLines(FileHeaders
              \o << <<"@", "@", " ", "-", "1", ",">> \o <<Digits[Len(lines) + 1]>> \o <<" ", "+", "1", ",">>
                    \o <<Digits[Len(lines) + 1]>> \o <<" ", "@", "@">> >>
              \o [i \in 1 .. Len(lines) + 1 |->
                    IF i < k THEN <<" ">> \o lines[i]
                    ELSE IF i = k THEN <<"-">> \o lines[k]
                    ELSE IF i = k + 1 THEN <<"+">> \o added
                    ELSE <<" ">> \o lines[i - 1]])

\* two hunks with the declared starts s1 and s2: the first removes one line
\* and adds one, the second only adds one
TwoHunkDiff(s1, s2) ==
    JoinLines(FileHeaders
              \o <<HunkHeaderText(s1), <<"-", "a">>, <<"+", "B">>,
                   HunkHeaderText(s2), <<"+", "B">>>>)

DiffCase(kind, line, added) ==
    [kind |-> kind, line |-> line, added |-> added, target |-> <<>>]

\* the standard unified diff from the content of lines (its last line ends
\* with a newline iff old_newline) to the content where the last line is
\* replaced by added (ending with a newline iff new_newline): one hunk, the
\* other lines as context, and the marker after each line that has no newline
StandardDiff(lines, old_newline, added, new_newline) ==
    LET n == Len(lines)
        body == [i \in 1 .. n - 1 |-> <<" ">> \o lines[i]]
                \o << <<"-">> \o lines[n] >>
                \o (IF old_newline THEN <<>> ELSE <<NoNewlineMarker>>)
                \o << <<"+">> \o added >>
                \o (IF new_newline THEN <<>> ELSE <<NoNewlineMarker>>)
        kept == JoinLines(SubSeq(lines, 1, n - 1)) \o added
    IN  [text |-> JoinLines(FileHeaders
                            \o << <<"@", "@", " ", "-", "1", ",">> \o <<Digits[n + 1]>>
                                  \o <<" ", "+", "1", ",">> \o <<Digits[n + 1]>>
                                  \o <<" ", "@", "@">> >>
                            \o body),
         case |-> [DiffCase("standard", n, added)
                     EXCEPT !.target = IF new_newline THEN Append(kept, NL) ELSE kept]]

\* the same change as a diff without context lines: the header declares the
\* last line, and the lines before it are left to the copy of lines 317-318
MinimalDiff(lines, old_newline, added, new_newline) ==
    [text |-> JoinLines(FileHeaders
                        \o << HunkHeaderText(Len(lines)), <<"-">> \o lines[Len(lines)] >>
                        \o (IF old_newline THEN <<>> ELSE <<NoNewlineMarker>>)
                        \o << <<"+">> \o added >>
                        \o (IF new_newline THEN <<>> ELSE <<NoNewlineMarker>>)),
     case |-> [StandardDiff(lines, old_newline, added, new_newline).case
                 EXCEPT !.kind = "minimal"]]

\* the diff texts offered for one original content, each with its case
DiffsFor(original) ==
    LET lines == SplitLines(original, FALSE)
    IN  { [text |-> <<>>, case |-> DiffCase("empty", 0, <<>>)],
          [text |-> JoinLines(FileHeaders), case |-> DiffCase("headers", 0, <<>>)],
          [text |-> RStripNL(JoinLines(FileHeaders)), case |-> DiffCase("headers", 0, <<>>)],
          [text |-> <<"x", NL>>, case |-> DiffCase("other", 0, <<>>)],
          [text |-> JoinLines(<<<<"@", "@", " ", "@", "@">>, <<"+", "B">>, <<"?">>>>),
           case |-> DiffCase("other", 0, <<>>)],
          [text |-> JoinLines(FileHeaders
                              \o <<HunkHeaderText(1), <<"-", "a">>, <<"+", "B">>,
                                   NoNewlineMarker, <<>>, <<" ", "b">>>>),
           case |-> DiffCase("other", 0, <<>>)] }
        \cup { [text |-> ReplacementDiff(lines, k, added),
                case |-> DiffCase("replace", k, added)] :
                  k \in 1 .. Len(lines), added \in AddedTexts }
        \cup { [text |-> TwoHunkDiff(s1, s2), case |-> DiffCase("hunks", 0, <<>>)] :
                  s1 \in 0 .. 2, s2 \in 0 .. MaxLines }
        \cup { StandardDiff(lines, Last(original) = NL, added, new_newline) :
                  added \in { a \in AddedTexts : lines # <<>> }, new_newline \in BOOLEAN }
        \cup { MinimalDiff(lines, Last(original) = NL, <<"B">>, new_newline) :
                  new_newline \in { b \in BOOLEAN : lines # <<>> } }

\* a call is made
CallApplyUnifiedDiff ==
    /\ patch_result = NoPatch
    /\ original_content = <<>> /\ diff_text = <<>> /\ diff_case = NoCase
    /\ \E original \in Originals : \E d \in DiffsFor(original) :
          /\ original_content' = original
          /\ diff_text' = d.text
          /\ diff_case' = [d.case EXCEPT !.kind = IF @ = "none" THEN "other" ELSE @]
          /\ patch_result' = [NoPatch EXCEPT !.kind = "called"]
    /\ UNCHANGED <<runvars, managervars, rerunvars, resolvevars, callvars>>

\* the call returns or raises
ApplyUnifiedDiff ==
    /\ patch_result.kind = "called"
    /\ patch_result' = apply_unified_diff(original_content, diff_text)
    /\ UNCHANGED <<original_content, diff_text, diff_case>>
    /\ UNCHANGED <<runvars, managervars, rerunvars, resolvevars, callvars>>

PatchNext == CallApplyUnifiedDiff \/ ApplyUnifiedDiff

PatchSpec == Init /\ [][PatchNext]_vars

(***************************************************************************)
(* utils/helpers.py: one call of resolve_repo_path on a relative candidate  *)
(* of up to MaxSegments segments.                                           *)
(***************************************************************************)
CandidateSegments == { <<>>, <<".">>, <<"a">>, <<"b">>, <<"g">>, <<"h">> }

\* relative candidates: the first segment is not empty
Candidates ==
    { <<>> } \cup
    { Join(segs) : segs \in { t \in UNION { [1 .. n -> CandidateSegments] :
                                              n \in 1 .. MaxSegments } : t[1] # <<>> } }

\* os.path.exists(os.path.join(root, candidate)): the path as written leads
\* to an entry of the tree ("" and "." segments only follow a directory)
ExistsVerbatim(candidate) ==
    LET segs == Split(candidate)
    IN  /\ Exists(normalize_path(candidate))
        /\ \A i \in 2 .. Len(segs) :
              segs[i] \in {<<>>, <<".">>} =>
                 IsDir(normalize_path(Join(SubSeq(segs, 1, i - 1))))

CallResolveRepoPath ==
    /\ resolved_path = NotResolved
    /\ \E candidate \in Candidates :
          /\ candidate_path' = candidate
          /\ resolved_path' = [kind |-> "called", path |-> <<>>]
    /\ UNCHANGED <<runvars, managervars, rerunvars, patchvars, callvars>>

ResolveRepoPath ==
    /\ resolved_path.kind = "called"
    /\ resolved_path' = [kind |-> "ok", path |-> resolve_repo_path(candidate_path)]
    /\ UNCHANGED candidate_path
    /\ UNCHANGED <<runvars, managervars, rerunvars, patchvars, callvars>>

ResolveNext == CallResolveRepoPath \/ ResolveRepoPath

ResolveSpec == Init /\ [][ResolveNext]_vars

(***************************************************************************)
(* analysis/refinement.py: one call of refine_entry_async, with what the    *)
(* file system and the model did during the call, and the processing of     *)
(* its result by process_refinement_batch in a batch with one sibling.      *)
(***************************************************************************)
\* the paths refined: a file, a directory, a path that is not on disk
RefinePaths == { <<"h">>, <<".", "/", "h">>, <<"a">>, <<"x">> }

\* "other": a needed_info outside the Literal of core/schemas.py
RefineEntries ==
    { UnsureEntry(path, is_dir, needed_info) :
        path \in RefinePaths, is_dir \in BOOLEAN,
        needed_info \in NeededInfoValues \cup {"other"} }

SiblingEntry == UnsureEntry(<<"a", "/", "g">>, FALSE, "raw_content")

\* refinement.py 16-123, the call returning
CallRefineEntry ==
    /\ refine_call.stage = "idle"
    /\ \E entry \in RefineEntries, unreadable \in BOOLEAN, headers \in BOOLEAN,
          response \in RefineResponses :
          LET resolved == ResolveEntryPath(entry)
              extra == resolve_needed_info(resolved, unreadable, headers)
          IN  refine_call' =
                [refine_call EXCEPT
                   !.stage = "returned", !.unreadable = unreadable,
                   !.headers = headers, !.response = response,
                   !.task = [type |-> "file", item |-> resolved,
                             result |-> VerdictFor(extra, response)]]
    /\ UNCHANGED <<runvars, managervars, rerunvars, patchvars, resolvevars>>
    /\ UNCHANGED <<subfoldervars, reportvars, latevars>>

\* refinement.py 159-213: the results of the gathered batch are processed
ProcessRefinementBatch ==
    /\ refine_call.stage = "returned"
    /\ \E o \in refine_entry_async(SiblingEntry) :
          LET sibling == [type |-> "file", item |-> o.item, result |-> o.result]
              results == <<refine_call.task, sibling>>
              raises == BatchRaises(results)
          IN  refine_call' =
                [refine_call EXCEPT
                   !.stage = "processed", !.sibling = sibling, !.raised = raises,
                   !.sure = IF raises THEN <<>> ELSE BatchSure(results),
                   !.unsure = IF raises THEN <<>> ELSE BatchUnsure(results),
                   !.folders = IF raises THEN <<>> ELSE FoldersToAnalyze(results)]
    /\ UNCHANGED <<runvars, managervars, rerunvars, patchvars, resolvevars>>
    /\ UNCHANGED <<subfoldervars, reportvars, latevars>>

RefineNext == CallRefineEntry \/ ProcessRefinementBatch

RefineSpec == Init /\ [][RefineNext]_vars

(***************************************************************************)
(* analysis/subfolder.py: one call of analyze_subfolder_async, with what    *)
(* build_tree, get_async_chat and the model did during the call.            *)
(* session_created: get_async_chat("subfolder:<path>") returned a session;  *)
(* request_sent: send_message_async was called on it.                       *)
(***************************************************************************)
\* variant: the session is obtained before the test for an empty subtree
SubfolderTrace_ChatFirst(folder_path, tree_raises, chat_raises, response) ==
    LET sub_root == normalize_path(folder_path)
        Empty(created) ==
            [result |-> FolderResult(<<>>, <<>>), session_created |-> created,
             request_sent |-> FALSE]
    IN  IF ~Exists(sub_root) THEN Empty(FALSE)
        ELSE IF ~IsDir(sub_root) THEN Empty(FALSE)
        ELSE IF tree_raises THEN Empty(FALSE)
        ELSE IF chat_raises THEN Empty(FALSE)
        ELSE IF ~HasContent(sub_root) THEN Empty(TRUE)
        ELSE [result |-> AnalyzeSubfolder(folder_path, response),
              session_created |-> TRUE, request_sent |-> TRUE]

SubfolderTrace(folder_path, tree_raises, chat_raises, response) ==
    LET sub_root == normalize_path(folder_path)
        Empty(created) ==
            [result |-> FolderResult(<<>>, <<>>), session_created |-> created,
             request_sent |-> FALSE]
    IN  IF ~Exists(sub_root) THEN Empty(FALSE)             \* lines 29-31
        ELSE IF ~IsDir(sub_root) THEN Empty(FALSE)         \* lines 33-35
        ELSE IF tree_raises THEN Empty(FALSE)              \* lines 44, 113-115
        ELSE IF ~HasContent(sub_root) THEN Empty(FALSE)    \* lines 47-49
        ELSE IF chat_raises THEN Empty(FALSE)              \* lines 52, 113-115
        ELSE [result |-> AnalyzeSubfolder(folder_path, response),  \* lines 73-115
              session_created |-> TRUE, request_sent |-> TRUE]

\* the folders analysed: directories with content, an empty directory, a
\* file, a path that is not on disk
FolderPaths ==
    { <<"a">>, <<"a", "/", "b", "/", "c">>, <<".">>, <<"e">>, <<".", "/", "e">>,
      <<"h">>, <<"x">> }

CallAnalyzeSubfolder ==
    /\ subfolder_call.stage = "idle"
    /\ \E folder_path \in FolderPaths, tree_raises \in BOOLEAN,
          chat_raises \in BOOLEAN, response \in SubfolderResponses :
          subfolder_call' =
             [subfolder_call EXCEPT
                !.stage = "called", !.folder_path = folder_path,
                !.tree_raises = tree_raises, !.chat_raises = chat_raises,
                !.response = response]
    /\ UNCHANGED <<runvars, managervars, rerunvars, patchvars, resolvevars>>
    /\ UNCHANGED <<refinevars, reportvars, latevars>>

ReturnAnalyzeSubfolder ==
    /\ subfolder_call.stage = "called"
    /\ LET trace == SubfolderTrace(subfolder_call.folder_path,
                                   subfolder_call.tree_raises,
                                   subfolder_call.chat_raises,
                                   subfolder_call.response)
       IN  subfolder_call' =
              [subfolder_call EXCEPT
                 !.stage = "returned", !.result = trace.result,
                 !.session_created = trace.session_created,
                 !.request_sent = trace.request_sent]
    /\ UNCHANGED <<runvars, managervars, rerunvars, patchvars, resolvevars>>
    /\ UNCHANGED <<refinevars, reportvars, latevars>>

SubfolderNext == CallAnalyzeSubfolder \/ ReturnAnalyzeSubfolder

SubfolderSpec == Init /\ [][SubfolderNext]_vars

(***************************************************************************)
(* analysis/reporting.py: one call of report_detailed_async.  Each          *)
(* analyze_single_file task is suspended twice, at the read of the file     *)
(* (line 37) and at the request (line 68); between two suspensions it runs  *)
(* alone on the event loop.                                                 *)
(***************************************************************************)
\* line 88, sorted(final_sure): FSWalk lists the paths in lexicographic order
Sorted(paths) == SelectSeq(FSWalk, LAMBDA q : q \in paths)

\* what happens to a task from line 68 on: the request raises, the response
\* carries a parsed payload, its content is coerced (line 74), or a call of
\* lines 72-78 raises
ReportOutcomes == {"send_raises", "parsed", "coerced", "payload_raises"}

ReportRaises(outcome) == outcome \in {"send_raises", "payload_raises"}

\* variant: the entry is appended before the calls that may raise
Collected_AppendFirst(reports, path, outcome) ==
    Append(reports, [path |-> path, parsed |-> outcome])

\* lines 68-84: collected_reports after the task of path went through them
Collected(reports, path, outcome) ==
    IF ReportRaises(outcome) THEN reports
    ELSE Append(reports, [path |-> path, parsed |-> outcome])

\* lines 20-21 and 88: the tasks are created, none has run yet
CallReportDetailed ==
    /\ ~report_result.called
    /\ \E final \in SUBSET Files :
          report_tasks' = [i \in 1 .. Len(Sorted(final)) |->
                             [path |-> Sorted(final)[i], stage |-> "created"]]
    /\ collected_reports' = <<>>
    /\ report_result' = [report_result EXCEPT !.called = TRUE]
    /\ UNCHANGED <<runvars, managervars, rerunvars, patchvars, resolvevars>>
    /\ UNCHANGED <<refinevars, subfoldervars, latevars>>

\* lines 24-37: a task runs up to the read of its file
ReadFile ==
    /\ \E i \in DOMAIN report_tasks :
          /\ report_tasks[i].stage = "created"
          /\ report_tasks' = [report_tasks EXCEPT ![i].stage = "reading"]
    /\ UNCHANGED <<collected_reports, report_result>>
    /\ UNCHANGED <<runvars, managervars, rerunvars, patchvars, resolvevars>>
    /\ UNCHANGED <<refinevars, subfoldervars, latevars>>

\* lines 37-68: the text is there; the task gets the "reporting" session,
\* which may raise, and sends its request
SendReportRequest ==
    /\ \E i \in DOMAIN report_tasks, chat_raises \in BOOLEAN :
          /\ report_tasks[i].stage = "reading"
          /\ report_tasks' =
                [report_tasks EXCEPT
                   ![i].stage = IF chat_raises THEN "raised" ELSE "sending"]
    /\ UNCHANGED <<collected_reports, report_result>>
    /\ UNCHANGED <<runvars, managervars, rerunvars, patchvars, resolvevars>>
    /\ UNCHANGED <<refinevars, subfoldervars, latevars>>

\* lines 68-86: the request is answered or raises, and the task ends
FinishReportTask ==
    /\ \E i \in DOMAIN report_tasks, outcome \in ReportOutcomes :
          /\ report_tasks[i].stage = "sending"
          /\ collected_reports' =
                Collected(collected_reports, report_tasks[i].path, outcome)
          /\ report_tasks' =
                [report_tasks EXCEPT
                   ![i].stage = IF ReportRaises(outcome) THEN "raised" ELSE "done"]
    /\ UNCHANGED report_result
    /\ UNCHANGED <<runvars, managervars, rerunvars, patchvars, resolvevars>>
    /\ UNCHANGED <<refinevars, subfoldervars, latevars>>

\* lines 89-99: the gather is complete and the collected reports are returned
ReturnReports ==
    /\ report_result.called /\ ~report_result.returned
    /\ \A i \in DOMAIN report_tasks : report_tasks[i].stage \in {"done", "raised"}
    /\ report_result' =
          [report_result EXCEPT !.returned = TRUE, !.reports = collected_reports]
    /\ UNCHANGED <<report_tasks, collected_reports>>
    /\ UNCHANGED <<runvars, managervars, rerunvars, patchvars, resolvevars>>
    /\ UNCHANGED <<refinevars, subfoldervars, latevars>>

ReportNext ==
    \/ CallReportDetailed
    \/ ReadFile
    \/ SendReportRequest
    \/ FinishReportTask
    \/ ReturnReports

ReportSpec == Init /\ [][ReportNext]_vars

(***************************************************************************)
(* analysis/fixes.py: generate_fix and generate_single_fix, on texts that   *)
(* are sequences of characters.                                             *)
(***************************************************************************)
RECURSIVE LStrip(_)
LStrip(text) ==
    IF text # <<>> /\ Head(text) \in {" ", NL} THEN LStrip(Tail(text)) ELSE text

RECURSIVE RStrip(_)
RStrip(text) ==
    IF text # <<>> /\ text[Len(text)] \in {" ", NL}
    THEN RStrip(SubSeq(text, 1, Len(text) - 1)) ELSE text

\* str.strip()
Strip(text) == RStrip(LStrip(text))

\* "\n".join(lines)
RECURSIVE JoinNL(_)
JoinNL(lines) ==
    IF lines = <<>> THEN <<>>
    ELSE IF Len(lines) = 1 THEN Head(lines)
    ELSE Head(lines) \o <<NL>> \o JoinNL(Tail(lines))

\* the code fence of line 258, three backquotes (written "~" here)
Fence == <<"~", "~", "~">>

DiffGitPrefix == <<"d", "i", "f", "f", " ", "-", "-", "g", "i", "t">>

IndexPrefix == <<"i", "n", "d", "e", "x", " ">>

\* fixes.py 270-277
RECURSIVE CleanedLines(_, _)
CleanedLines(lines, cleaned_lines) ==
    IF lines = <<>> THEN cleaned_lines
    ELSE LET line == Head(lines)
             stripped == Strip(line)
         IN  IF stripped = <<>> /\ cleaned_lines # <<>> /\ Last(cleaned_lines) = <<>>
             THEN CleanedLines(Tail(lines), cleaned_lines)
             ELSE IF StartsWith(stripped, DiffGitPrefix) \/ StartsWith(stripped, IndexPrefix)
             THEN CleanedLines(Tail(lines), cleaned_lines)
             ELSE CleanedLines(Tail(lines), Append(cleaned_lines, line))

\* fixes.py 258-268: the text between the opening fence and the closing one
Unfenced(text) ==
    LET lines == SplitLines(text, FALSE)
        closing == { idx \in 2 .. Len(lines) : StartsWith(Strip(lines[idx]), Fence) }
        closing_index == CHOOSE idx \in closing : \A other \in closing : idx <= other
    IN  IF ~StartsWith(text, Fence) THEN text
        ELSE IF closing # {} THEN JoinNL(SubSeq(lines, 2, closing_index - 1))
        ELSE JoinNL(Tail(lines))

\* fixes.py 252-284: _extract_diff_content
extract_diff_content(raw_output) ==
    LET text == Strip(raw_output)
        normalized == Strip(JoinNL(CleanedLines(SplitLines(Unfenced(text), FALSE), <<>>)))
    IN  IF text = <<>> THEN [raised |-> FALSE, text |-> <<>>]
        ELSE IF normalized # <<>> /\ ~HasHeaders(normalized)
        THEN [raised |-> TRUE, text |-> <<>>]
        ELSE [raised |-> FALSE, text |-> normalized]

\* read: generate_fix has opened the file (line 117); sent: it has called
\* send_message (line 128)
FixRaised(error) ==
    [raised |-> TRUE, error |-> error, content |-> <<>>, diff |-> <<>>,
     read |-> FALSE, sent |-> FALSE]

FixReturned(content, diff) ==
    [raised |-> FALSE, error |-> "", content |-> content, diff |-> diff,
     read |-> TRUE, sent |-> TRUE]

Reached(fix, read, sent) == [fix EXCEPT !.read = read, !.sent = sent]

\* variant: the size test of line 141 never fires
TooShort_Never(fixed_content) == FALSE

\* fixes.py 141: not fixed_content or len(fixed_content) < 10
TooShort(fixed_content) == fixed_content = <<>> \/ Len(fixed_content) < 10

\* fixes.py 134-135 and 150-151: the outcome in diff mode, for the extracted
\* diff and the result of its application
DiffFix(diff_output, patched) ==
    IF diff_output.raised
    THEN FixRaised("Generated diff is missing required headers")
    ELSE IF patched.kind = "error" THEN FixRaised(patched.error)
    ELSE FixReturned(patched.content, diff_output.text)

\* fixes.py 129-151: the outcome for the stripped output of the model
FixOfOutput(style, original, raw_output) ==
    IF style = "diff"
    THEN CHOOSE fix \in
            UNION { { DiffFix(diff_output, patched) :
                        patched \in {apply_unified_diff(original, diff_output.text)} } :
                      diff_output \in {extract_diff_content(raw_output)} } : TRUE
    ELSE IF TooShort(raw_output)                                          \* 139-142
         THEN FixRaised("Generated fix appears to be empty or too short")
    ELSE FixReturned(raw_output, <<>>)

\* the failures with a report whose diagnosis.needs_update is false
UpdateFailures == {"update", "update+read"}

\* variant: the test of lines 100-101 comes after the file is read
generate_fix_LateGate(style, failure, original, response_content) ==
    IF failure \in {"read", "update+read"}
    THEN Reached(FixRaised("Could not read file"), TRUE, FALSE)
    ELSE IF failure = "update"
    THEN Reached(FixRaised("does not need updates"), TRUE, FALSE)
    ELSE IF failure = "chat" THEN Reached(FixRaised("chat creation"), TRUE, FALSE)
    ELSE IF failure = "send" THEN Reached(FixRaised("send_message"), TRUE, TRUE)
    ELSE CHOOSE fix \in { Reached(FixOfOutput(style, original, raw_output), TRUE, TRUE) :
                            raw_output \in {Strip(response_content)} } : TRUE

\* fixes.py 100-151: generate_fix.  failure: what fails around the request
\* ("update": the report says no update is needed, "update+read": it says
\* so and the file cannot be read either, "read": the file cannot be read,
\* "chat": _get_fix_chat raises, "send": send_message raises)
generate_fix(style, failure, original, response_content) ==
    IF failure \in UpdateFailures THEN FixRaised("does not need updates") \* 100-101
    ELSE IF failure = "read"                                              \* 116-120
    THEN Reached(FixRaised("Could not read file"), TRUE, FALSE)
    ELSE IF failure = "chat"                                              \* 125
    THEN Reached(FixRaised("chat creation"), TRUE, FALSE)
    ELSE IF failure = "send"                                              \* 128, 150
    THEN Reached(FixRaised("send_message"), TRUE, TRUE)
    ELSE CHOOSE fix \in { Reached(FixOfOutput(style, original, raw_output), TRUE, TRUE) :
                            raw_output \in {Strip(response_content)} } : TRUE

\* variant: the call of generate_fix is not inside a try
generate_single_fix_NoTry(style, failure, original, response_content) ==
    CHOOSE record \in
       { [success |-> ~fix.raised, error |-> "",
          fixed_content |-> [null |-> FALSE, text |-> fix.content],
          raised |-> fix.raised] :
            fix \in {generate_fix(style, failure, original, response_content)} } : TRUE

\* fixes.py 379-398: the record for the outcome of generate_fix
SingleFixRecord(fix) ==
    IF fix.raised
    THEN [success |-> FALSE, error |-> fix.error, fixed_content |-> NoContent,
          raised |-> FALSE]
    ELSE [success |-> TRUE, error |-> "",
          fixed_content |-> [null |-> FALSE, text |-> fix.content],
          raised |-> FALSE]

\* fixes.py 367-398: generate_single_fix.  raised: the call raised instead
\* of returning a record
generate_single_fix(style, failure, original, response_content) ==
    CHOOSE record \in
       { SingleFixRecord(fix) :
            fix \in {generate_fix(style, failure, original, response_content)} } : TRUE

\* the contents of the files fixed
FixOriginals ==
    { JoinLines(<< <<"a">>, <<"b">> >>), <<"a">>, <<>> }

FixFailures == {"none", "read", "chat", "send"} \cup UpdateFailures

\* the two header marks inside a line
HeaderMarks == MinusHeader \o PlusHeader

\* what the model answers in diff mode: nothing, the file headers alone, a
\* text that is no diff, a hunk without file headers, the same hunk with an
\* added line that holds the header marks, two hunks that overlap,
\* and the diff that replaces the first line, bare, inside a code fence and
\* after a "diff --git" line
DiffOutputs(original) ==
    LET lines == SplitLines(original, FALSE)
        replacement == IF lines = <<>> THEN JoinLines(FileHeaders)
                       ELSE ReplacementDiff(lines, 1, <<"B">>)
    IN  { <<>>, JoinLines(FileHeaders), <<"x", NL>>,
          JoinLines(<<HunkHeaderText(1), <<"-", "a">>, <<"+", "B">>>>),
          JoinLines(<<HunkHeaderText(1), <<"-", "a">>, <<"+", "B">> \o HeaderMarks>>),
          TwoHunkDiff(2, 0),
          replacement,
          Fence \o <<"d", "i", "f", "f", NL>> \o replacement \o Fence \o <<NL>>,
          DiffGitPrefix \o <<" ", "x", NL>> \o replacement }

\* what the model answers in full_file mode: n characters between blanks
FullOutputs ==
    { pre \o [i \in 1 .. n |-> "x"] \o post :
        n \in 0 .. 11, pre \in {<<>>, <<" ">>}, post \in {<<>>, <<NL>>} }

FixOutputs(style, original) ==
    IF style = "diff" THEN DiffOutputs(original) ELSE FullOutputs

\* a call of generate_single_fix
CallGenerateSingleFix ==
    /\ fix_run.stage = "idle"
    /\ \E style \in {"full_file", "diff"}, failure \in FixFailures,
          original \in FixOriginals :
          \E response_content \in FixOutputs(style, original) :
             fix_run' =
                [fix_run EXCEPT
                   !.stage = "single",
                   !.call = [style |-> style, failure |-> failure,
                             original |-> original, raw_output |-> response_content],
                   !.result = generate_fix(style, failure, original, response_content),
                   !.single = generate_single_fix(style, failure, original,
                                                  response_content)]
    /\ UNCHANGED <<runvars, managervars, rerunvars, patchvars, resolvevars>>
    /\ UNCHANGED <<refinevars, subfoldervars, reportvars, chatvars, coercevars, historyvars>>

(***************************************************************************)
(* main.py 421-517: run_analysis from the report entries to the payload.    *)
(***************************************************************************)
\* entry['parsed']: None, or a report that needs an update, needs none, or
\* has no diagnosis
ParsedKinds == {"null", "needs_update", "no_update", "no_diagnosis"}

FixPaths == << <<"h">>, <<"a", "/", "g">> >>

\* main.py 405-418: final_sure after the deduplication
FinalSureLists ==
    { <<>>, <<FixPaths[1]>>, <<FixPaths[2]>>, <<FixPaths[2], FixPaths[1]>> }

ReportEntryLists ==
    { [i \in 1 .. n |-> [path |-> FixPaths[i], parsed |-> kinds[i]]] :
        n \in 0 .. Len(FixPaths), kinds \in [1 .. Len(FixPaths) -> ParsedKinds] }

\* main.py 421 and reporting.py 80-88: the entries report_detailed_async
\* returns for final_sure, one for each task that completed
ReportEntriesFor(final) ==
    { entries \in ReportEntryLists :
         \A i \in DOMAIN entries : entries[i].path \in Range(final) }

\* variant: parsed.get('diagnosis') without the isinstance test
Diagnosis_NoGuard(parsed) ==
    IF parsed = "null" THEN "raise"
    ELSE IF parsed = "no_diagnosis" THEN "none"
    ELSE parsed

\* main.py 426-428: what line 428 tests ("raise": the lines raise)
Diagnosis(parsed) ==
    IF parsed \in {"null", "no_diagnosis"} THEN "none" ELSE parsed

\* main.py 423-431
SelectNeedsUpdate ==
    /\ fix_run.stage = "idle"
    /\ \E tracker \in BOOLEAN, final \in FinalSureLists :
       \E report_entries \in ReportEntriesFor(final) :
          LET selected ==
                 SelectSeq(report_entries,
                           LAMBDA entry : Diagnosis(entry.parsed) = "needs_update")
              raises ==
                 \E i \in DOMAIN report_entries :
                    Diagnosis(report_entries[i].parsed) = "raise"
              skipped == ~tracker \/ report_entries = <<>>
          IN  fix_run' =
                 [fix_run EXCEPT
                    !.tracker = tracker,
                    !.final_sure = final,
                    !.report_entries = report_entries,
                    !.needs_update_entries = IF skipped \/ raises THEN <<>> ELSE selected,
                    !.stage = IF skipped THEN "payload"
                              ELSE IF raises THEN "raised"
                              ELSE IF selected = <<>> THEN "payload"
                              ELSE "fixing"]
    /\ UNCHANGED <<runvars, managervars, rerunvars, patchvars, resolvevars>>
    /\ UNCHANGED <<refinevars, subfoldervars, reportvars, chatvars, coercevars, historyvars>>

\* main.py 442-478: one turn of the loop over needs_update_entries
GenerateFixForEntry ==
    /\ fix_run.stage = "fixing"
    /\ \E failure \in FixFailures \ UpdateFailures, original \in FixOriginals :
          \E response_content \in FixOutputs("diff", original) :
             \E fix \in {generate_fix("diff", failure, original, response_content)} :
                 fix_run' =
                    [fix_run EXCEPT
                       !.attempts =
                          Append(@, [path |-> fix_run.needs_update_entries[fix_run.next].path,
                                     raised |-> fix.raised, error |-> fix.error]),
                       !.fixes =
                          IF fix.raised THEN @
                          ELSE Append(@, [path |-> fix_run.needs_update_entries[fix_run.next].path,
                                          content |-> fix.diff,
                                          applied_content |-> fix.content]),
                       !.next = @ + 1,
                       !.stage = IF fix_run.next = Len(fix_run.needs_update_entries)
                                 THEN "payload" ELSE "fixing"]
    /\ UNCHANGED <<runvars, managervars, rerunvars, patchvars, resolvevars>>
    /\ UNCHANGED <<refinevars, subfoldervars, reportvars, chatvars, coercevars, historyvars>>

\* main.py 480-517
ReturnPayload ==
    /\ fix_run.stage = "payload"
    /\ fix_run' = [fix_run EXCEPT !.stage = "returned"]
    /\ UNCHANGED <<runvars, managervars, rerunvars, patchvars, resolvevars>>
    /\ UNCHANGED <<refinevars, subfoldervars, reportvars, chatvars, coercevars, historyvars>>

FixNext ==
    \/ CallGenerateSingleFix
    \/ SelectNeedsUpdate
    \/ GenerateFixForEntry
    \/ ReturnPayload

FixSpec == Init /\ [][FixNext]_vars

(***************************************************************************)
(* llm/providers/openai.py 54-101 and core/abstractions.py 61-68: the tasks *)
(* of a batch call send_message_async on one cached session; each call runs *)
(* OpenAIChatSession.send_message on a thread of the executor (5 workers,   *)
(* main.py 249), and the threads share self._messages.  A thread is         *)
(* "submitted", then has "appended" its prompt (line 58), then has "sent"   *)
(* its request (lines 61-68), then is "done" (line 71) or "failed" (lines   *)
(* 96-101).  transmitted is the message list its request carried, completed *)
(* the tasks whose turn was complete when the request was sent.             *)
(***************************************************************************)
UserMessage(task) == [role |-> "user", content |-> "prompt", task |-> task]

AssistantMessage(task) == [role |-> "assistant", content |-> "reply", task |-> task]

\* openai.py 103-108: "messages": self._messages
RequestMessages(messages, threads, task) == messages

\* abstractions.py 61-68: run_in_executor(self.executor, send_message, message)
CallSendMessage ==
    /\ Len(chat_threads) < MaxChatTasks
    /\ chat_threads' = Append(chat_threads,
                              [stage |-> "submitted", transmitted |-> <<>>,
                               completed |-> {}])
    /\ UNCHANGED session_messages
    /\ UNCHANGED <<runvars, managervars, rerunvars, patchvars, resolvevars>>
    /\ UNCHANGED <<refinevars, subfoldervars, reportvars, fixvars, coercevars, historyvars>>

\* openai.py 58
AppendUserMessage ==
    /\ \E task \in DOMAIN chat_threads :
          /\ chat_threads[task].stage = "submitted"
          /\ session_messages' = Append(session_messages, UserMessage(task))
          /\ chat_threads' = [chat_threads EXCEPT ![task].stage = "appended"]
    /\ UNCHANGED <<runvars, managervars, rerunvars, patchvars, resolvevars>>
    /\ UNCHANGED <<refinevars, subfoldervars, reportvars, fixvars, coercevars, historyvars>>

\* openai.py 61-68 and 103-108: the request is built from self._messages
SendRequest ==
    /\ \E task \in DOMAIN chat_threads :
          /\ chat_threads[task].stage = "appended"
          /\ chat_threads' =
                [chat_threads EXCEPT
                   ![task].stage = "sent",
                   ![task].transmitted =
                      RequestMessages(session_messages, chat_threads, task),
                   ![task].completed =
                      { t \in DOMAIN chat_threads : chat_threads[t].stage = "done" }]
    /\ UNCHANGED session_messages
    /\ UNCHANGED <<runvars, managervars, rerunvars, patchvars, resolvevars>>
    /\ UNCHANGED <<refinevars, subfoldervars, reportvars, fixvars, coercevars, historyvars>>

\* openai.py 71
ReceiveResponse ==
    /\ \E task \in DOMAIN chat_threads :
          /\ chat_threads[task].stage = "sent"
          /\ session_messages' = Append(session_messages, AssistantMessage(task))
          /\ chat_threads' = [chat_threads EXCEPT ![task].stage = "done"]
    /\ UNCHANGED <<runvars, managervars, rerunvars, patchvars, resolvevars>>
    /\ UNCHANGED <<refinevars, subfoldervars, reportvars, fixvars, coercevars, historyvars>>

\* openai.py 96-101: the request raises; self._messages keeps the prompt
RequestRaises ==
    /\ \E task \in DOMAIN chat_threads :
          /\ chat_threads[task].stage = "sent"
          /\ chat_threads' = [chat_threads EXCEPT ![task].stage = "failed"]
    /\ UNCHANGED session_messages
    /\ UNCHANGED <<runvars, managervars, rerunvars, patchvars, resolvevars>>
    /\ UNCHANGED <<refinevars, subfoldervars, reportvars, fixvars, coercevars, historyvars>>

ChatNext ==
    \/ CallSendMessage
    \/ AppendUserMessage
    \/ SendRequest
    \/ ReceiveResponse
    \/ RequestRaises

ChatSpec == Init /\ [][ChatNext]_vars

(***************************************************************************)
(* Helpers of the properties.                                               *)
(***************************************************************************)
Returned == result_payload.returned

AfterLoop == pc \in {"report", "done"}

OverviewLevel(entry) == entry.needed_info \in {"file_overview", "file_metadata"}

\* every UnsureEntry the run currently holds
LiveEntries ==
    Range(remaining_unsure) \cup { tasks[i].item : i \in DOMAIN tasks }

\* a task of the batch that refine_entry_async answered for a path that is a
\* directory on disk
RefinedDirectory(t) ==
    /\ t.type = "file"
    /\ t.result.kind \notin {"pending", "exc"}
    /\ IsDir(normalize_path(t.item.path))

RECURSIVE SumLen(_)
SumLen(ss) == IF ss = <<>> THEN 0 ELSE Len(Head(ss)) + SumLen(Tail(ss))

Suffix(s, from) == SubSeq(s, from + 1, Len(s))

(***************************************************************************)
(* C1: the refinement loop runs at most max_iterations rounds and then      *)
(* run_analysis goes on to the deduplication step: the round counter never  *)
(* exceeds the cap and a run that has started a round does not end in an    *)
(* exception instead of reaching the deduplication.                         *)
(***************************************************************************)
C1_LoopEndsInDedup ==
    /\ iteration <= max_iterations
    /\ pc = "raised" => iteration = 0

(***************************************************************************)
(* C2: in a round below the cap, a file entry refined at Overview level     *)
(* whose verdict has confidence low is neither accepted nor pruned: the     *)
(* escalation step of that round hands it to the next round at raw_content. *)
(***************************************************************************)
LowOverviewVerdict(t) ==
    /\ t.type = "file"
    /\ t.result.kind = "decision"
    /\ t.result.asked
    /\ t.result.reasoning = "plain"
    /\ t.result.confidence = "low"
    /\ OverviewLevel(t.item)

C2_LowOverviewEscalated ==
    [][(pc = "escalate" /\ iteration < max_iterations) =>
         \A i \in DOMAIN tasks :
            LowOverviewVerdict(tasks[i]) =>
               /\ tasks[i].item.path \notin Range(final_sure')
               /\ \E j \in DOMAIN remaining_unsure' :
                     /\ remaining_unsure'[j].path = tasks[i].item.path
                     /\ remaining_unsure'[j].needed_info = "raw_content"]_vars

(***************************************************************************)
(* C3: the confirmed list run_analysis returns holds no two entries with    *)
(* the same resolved, normalized path.                                      *)
(***************************************************************************)
C3_SureHasNoDuplicates ==
    Returned =>
       \A i, j \in DOMAIN result_payload.sure :
          i # j => DedupKey(result_payload.sure[i]) # DedupKey(result_payload.sure[j])

C3_Witness ==
    /\ Returned
    /\ dedup_removed > 0
    /\ Len(result_payload.sure) >= 2

(***************************************************************************)
(* C4: in a round below the cap, an is_dir entry that a classification pass *)
(* has just produced and whose path is a directory shallower than max_depth *)
(* is not pruned by the escalation step: it stays queued.                   *)
(***************************************************************************)
FreshShallowDirectory(entry) ==
    /\ entry.is_dir
    /\ IsDir(normalize_path(entry.path))
    /\ compute_path_depth(entry.path) < max_depth
    /\ compute_path_depth(entry.path) > 0
    /\ \A i \in DOMAIN tasks : tasks[i].item # entry

C4_ShallowDirectoryNotPruned ==
    [][(pc = "escalate" /\ iteration < max_iterations) =>
         \A i \in DOMAIN remaining_unsure :
            FreshShallowDirectory(remaining_unsure[i]) =>
               \E j \in DOMAIN remaining_unsure' :
                  remaining_unsure'[j].path = remaining_unsure[i].path]_vars

C6_LevelNeverRegresses ==
    \A e \in LiveEntries : LevelRank(e.needed_info) >= e.reached

C6_Witness ==
    /\ pc = "batch"
    /\ iteration = 2
    /\ \E i \in DOMAIN tasks :
          /\ tasks[i].item.path = <<"h">>
          /\ tasks[i].item.needed_info = "raw_content"
          /\ tasks[i].result.kind = "exc"

(***************************************************************************)
(* C7: run_analysis never raises once the context is built.                 *)
(***************************************************************************)
C7_NeverRaises == pc # "raised"

(***************************************************************************)
(* C8 as claimed: every run executes exactly max_iterations rounds.         *)
(***************************************************************************)
C8_ExactlyMaxRounds == Returned => iteration = max_iterations

(***************************************************************************)
(* C8 as amended: a round starts only while the unsure list is not empty    *)
(* and fewer than max_iterations rounds have run, so a run executes between *)
(* 0 and max_iterations rounds and leaves the loop before the cap exactly   *)
(* when the unsure list is empty.                                           *)
(***************************************************************************)
C8_AtMostMaxRounds ==
    /\ [](AfterLoop => (iteration <= max_iterations
                        /\ (iteration < max_iterations => remaining_unsure = <<>>)))
    /\ [][iteration' # iteration =>
            /\ iteration' = iteration + 1
            /\ iteration < max_iterations
            /\ remaining_unsure # <<>>]_vars

C8_Witness ==
    /\ Returned
    /\ iteration > 0
    /\ iteration < max_iterations

(***************************************************************************)
(* C9: the round at the cap prunes every remaining entry, so the residual   *)
(* list is empty at loop exit and the returned still_unsure list is empty.  *)
(***************************************************************************)
C9_StillUnsureEmpty ==
    /\ (pc = "loop" /\ iteration = max_iterations) => remaining_unsure = <<>>
    /\ AfterLoop => remaining_unsure = <<>>
    /\ Returned => result_payload.still_unsure = <<>>

C9_Witness ==
    /\ Returned
    /\ iteration = max_iterations
    /\ pruned_count > 0

(***************************************************************************)
(* C10: a task that raised takes nothing from its siblings.  The batch of   *)
(* a round in which a task raised is merged: every related file verdict     *)
(* adds its path and every folder result adds its sure paths and unsure     *)
(* entries, the entry of each failed file task is in the unsure list handed *)
(* to the escalation step, and failed tasks add nothing else; the same      *)
(* holds for the folder batches of main.py, where a failed folder analysis  *)
(* adds nothing.                                                            *)
(***************************************************************************)
Failed(t) == t.result.kind = "exc"

ExpectedSure(t) ==
    IF Failed(t) THEN <<>>
    ELSE IF t.type = "folder" THEN t.result.sure
    ELSE IF t.result.related /\ t.result.reasoning # "Directory detected"
         THEN <<t.item.path>>
    ELSE <<>>

ExpectedUnsure(t) ==
    IF Failed(t) THEN (IF t.type = "file" THEN <<t.item>> ELSE <<>>)
    ELSE IF t.type = "folder" THEN t.result.unsure
    ELSE <<>>

SiblingsMerged(ts, sureBefore, unsureBefore) ==
    LET addedSure == Suffix(final_sure', Len(sureBefore))
        addedUnsure == Suffix(remaining_unsure', Len(unsureBefore))
    IN  /\ SubSeq(final_sure', 1, Len(sureBefore)) = sureBefore
        /\ SubSeq(remaining_unsure', 1, Len(unsureBefore)) = unsureBefore
        /\ Len(addedSure) = SumLen([i \in 1 .. Len(ts) |-> ExpectedSure(ts[i])])
        /\ Len(addedUnsure) = SumLen([i \in 1 .. Len(ts) |-> ExpectedUnsure(ts[i])])
        /\ \A i \in DOMAIN ts :
              /\ Range(ExpectedSure(ts[i])) \subseteq Range(addedSure)
              /\ Range(ExpectedUnsure(ts[i])) \subseteq Range(addedUnsure)

C10_FailureSparesSiblings ==
    [][/\ (/\ pc = "batch" /\ pc' # "batch"
           /\ \E i \in DOMAIN tasks : Failed(tasks[i])) =>
             /\ pc' \in {"folders", "escalate"}
             /\ SiblingsMerged(tasks, final_sure, remaining_unsure)
       /\ (pc \in {"sure_folders", "folders"} /\ pc' # pc) =>
             SiblingsMerged(folder_tasks, final_sure, remaining_unsure)]_vars

(***************************************************************************)
(* C11: session creation is single-flight.  For every context key, however  *)
(* the tasks of a batch interleave, the manager constructs the underlying   *)
(* session at most once, and all the callers that hold a session for one    *)
(* key hold the same session.                                               *)
(***************************************************************************)
HoldsSession(c) == c.at \in {"has", "sent"}

C11_SingleFlight ==
    /\ \A k \in ChatKeys : constructed[k] <= 1
    /\ \A i, j \in DOMAIN callers :
          (HoldsSession(callers[i]) /\ HoldsSession(callers[j])
             /\ callers[i].key = callers[j].key)
          => callers[i].session = callers[j].session

C11_Witness ==
    \E i, j, k \in DOMAIN callers :
       /\ i # j /\ j # k /\ i # k
       /\ callers[i].key = "refinement" /\ callers[j].key = "refinement"
       /\ callers[k].key = "refinement"
       /\ callers[i].at = "raised"
       /\ HoldsSession(callers[j]) /\ HoldsSession(callers[k])
       /\ constructed["refinement"] = 1

(***************************************************************************)
(* C12: with a fixed filesystem and fixed answers, two runs of run_analysis *)
(* return the same confirmed list (or both return none), whatever the order *)
(* in which the tasks of each batch complete in either run.                 *)
(***************************************************************************)
C12_SameSureInBothRuns ==
    run = 2 =>
       /\ Returned => (first_payload.returned /\ result_payload.sure = first_payload.sure)
       /\ pc = "raised" => ~first_payload.returned

C12_Witness ==
    /\ run = 2
    /\ Returned
    /\ Len(result_payload.sure) >= 2
    /\ iteration >= 2
    /\ \E i \in DOMAIN completion : i < Len(completion) /\ completion[i] > completion[i + 1]

(***************************************************************************)
(* C13: applying an empty diff, or a diff that has the "---" and "+++"      *)
(* headers and no "@@" line, returns the original content character for     *)
(* character, for every original content.                                   *)
(***************************************************************************)
PatchDone == patch_result.kind \in {"ok", "error"}

C13_HeadersOnlyKeepsOriginal ==
    (PatchDone /\ diff_case.kind \in {"empty", "headers"}) =>
       (patch_result.kind = "ok" /\ patch_result.content = original_content)

C13_Witness ==
    /\ patch_result.kind = "ok"
    /\ diff_case.kind = "headers"
    /\ Len(SplitLines(original_content, TRUE)) = 2
    /\ original_content[Len(original_content)] # NL

(***************************************************************************)
(* C14: applying a hunk made of context lines and one replacement (a "-"    *)
(* line followed by a "+" line) to an original whose lines all end with a   *)
(* newline returns the original with exactly that line replaced by the      *)
(* added text and every other line unchanged.                               *)
(***************************************************************************)
C14_ReplacementApplied ==
    (PatchDone /\ diff_case.kind = "replace"
       /\ original_content[Len(original_content)] = NL) =>
       /\ patch_result.kind = "ok"
       /\ patch_result.content =
             JoinLines([SplitLines(original_content, FALSE)
                          EXCEPT ![diff_case.line] = diff_case.added])

(***************************************************************************)
(* C15 as claimed: every hunk whose declared start line minus one lies      *)
(* before the cursor raises the hunk-overlap error.                         *)
(***************************************************************************)
OverlapError == "Diff hunk overlaps with previous content"

C15_StartBehindCursorRaises ==
    \A i \in DOMAIN patch_result.hunks :
       patch_result.hunks[i].start_line - 1 < patch_result.hunks[i].cursor =>
          (patch_result.kind = "error" /\ patch_result.error = OverlapError)

(***************************************************************************)
(* C15 as amended: a declared start line of 0 counts as 1.  Every hunk      *)
(* whose header matches the pattern and whose start line, taken as at least *)
(* 1, minus one lies before the cursor reached by the preceding hunks       *)
(* raises the hunk-overlap error and no content is returned; in a diff that *)
(* applies, every such start is at or after the cursor and the cursors of   *)
(* the successive hunks never decrease.                                     *)
(***************************************************************************)
ClampedStart(h) == (IF h.start_line > 1 THEN h.start_line ELSE 1) - 1

C15_ClampedStartBehindCursorRaises ==
    /\ \A i \in DOMAIN patch_result.hunks :
          ClampedStart(patch_result.hunks[i]) < patch_result.hunks[i].cursor =>
             /\ patch_result.kind = "error"
             /\ patch_result.error = OverlapError
             /\ patch_result.content = <<>>
    /\ patch_result.kind = "ok" =>
          \A i, j \in DOMAIN patch_result.hunks :
             /\ ClampedStart(patch_result.hunks[i]) >= patch_result.hunks[i].cursor
             /\ i < j => patch_result.hunks[i].cursor <= patch_result.hunks[j].cursor

C15_Witness ==
    /\ patch_result.kind = "error"
    /\ patch_result.error = OverlapError
    /\ Len(patch_result.hunks) = 2
    /\ patch_result.hunks[2].start_line = 1
    /\ patch_result.hunks[2].cursor = 2

(***************************************************************************)
(* C16 as claimed: for every candidate that exists as written relative to   *)
(* the root, resolve_repo_path returns exactly the candidate string.        *)
(***************************************************************************)
Resolved == resolved_path.kind = "ok"

C16_ExistingCandidateUnchanged ==
    (Resolved /\ ExistsVerbatim(candidate_path)) => resolved_path.path = candidate_path

(***************************************************************************)
(* C16 as amended: for every candidate that exists as written relative to   *)
(* the root, resolve_repo_path returns the normalized form of the candidate *)
(* (os.path.normpath), which names the same entry; the candidate comes back *)
(* unchanged exactly when it is already normalized.                         *)
(***************************************************************************)
C16_ExistingCandidateNormalized ==
    (Resolved /\ ExistsVerbatim(candidate_path)) =>
       /\ resolved_path.path = normalize_path(candidate_path)
       /\ Exists(resolved_path.path)
       /\ (resolved_path.path = candidate_path)
            <=> (candidate_path = normalize_path(candidate_path))

C16_Witness ==
    /\ Resolved
    /\ candidate_path = <<"a", "/", "/", "g">>
    /\ resolved_path.path = <<"a", "/", "g">>

(***************************************************************************)
(* C17: when the evidence gathering reports that the path of a refined      *)
(* entry is a directory, refine_entry_async answers related = true with     *)
(* confidence high and has sent no request to the model, and the batch of   *)
(* that round hands the path to a subfolder analysis within the same round  *)
(* and does not append the path to final_sure.                              *)
(***************************************************************************)
Rerouted(path) ==
    /\ pc' = "folders" /\ iteration' = iteration
    /\ \E j \in DOMAIN folder_tasks' :
          folder_tasks'[j].item = path /\ folder_tasks'[j].result = Pending
    /\ path \notin Range(Suffix(final_sure', Len(final_sure)))

C17_DirectoryRerouted ==
    /\ [](\A i \in DOMAIN tasks :
             RefinedDirectory(tasks[i]) =>
                /\ tasks[i].result.kind = "decision"
                /\ tasks[i].result.related /\ tasks[i].result.confidence = "high"
                /\ ~tasks[i].result.asked)
    /\ [][(pc = "batch" /\ pc' # "batch") =>
             \A i \in DOMAIN tasks :
                RefinedDirectory(tasks[i]) => Rerouted(tasks[i].item.path)]_vars

(***************************************************************************)
(* C18: when the evidence gathering for an entry fails (the file cannot be  *)
(* read, the path is not on disk, the needed_info is unknown) or the        *)
(* request for its verdict raises, refine_entry_async returns a verdict     *)
(* with related = false and confidence low instead of raising; processing   *)
(* the batch then adds the path neither to the sure list nor to the folders *)
(* to analyze, and the batch raises only on account of a sibling.           *)
(***************************************************************************)
RefinedPath == normalize_path(refine_call.task.item.path)

EvidenceFails ==
    /\ ~IsDir(RefinedPath)
    /\ \/ ~Exists(RefinedPath)
       \/ refine_call.unreadable
       \/ refine_call.task.item.needed_info \notin NeededInfoValues

RequestFails ==
    /\ ~IsDir(RefinedPath) /\ ~EvidenceFails
    /\ refine_call.response.kind = "raise"

C18_FailureYieldsLowVerdict ==
    (refine_call.stage # "idle" /\ (EvidenceFails \/ RequestFails)) =>
       /\ refine_call.task.result.kind = "decision"
       /\ ~refine_call.task.result.related
       /\ refine_call.task.result.confidence = "low"
       /\ refine_call.task.result.asked = RequestFails
       /\ refine_call.stage = "processed" =>
             /\ refine_call.raised => refine_call.sibling.result.kind = "none"
             /\ refine_call.task.item.path \notin Range(refine_call.sure)
             /\ refine_call.task.item.path \notin Range(refine_call.folders)

C18_Witness ==
    /\ refine_call.stage = "processed"
    /\ RefinedPath \in Files /\ refine_call.unreadable
    /\ refine_call.response.kind = "ok" /\ refine_call.response.verdict.related
    /\ ~refine_call.raised
    /\ refine_call.sure = <<refine_call.sibling.item.path>>

(***************************************************************************)
(* C19: analyze_subfolder_async returns the empty sure and unsure lists,    *)
(* without raising, without creating a session and without sending a        *)
(* request, when the folder path is not on disk, is not a directory or is   *)
(* an empty directory; and it returns the empty lists when build_tree,      *)
(* get_async_chat or the request raises or the response has no payload.     *)
(***************************************************************************)
SubfolderRoot == normalize_path(subfolder_call.folder_path)

NothingToAnalyze ==
    ~Exists(SubfolderRoot) \/ ~IsDir(SubfolderRoot) \/ ~HasContent(SubfolderRoot)

C19_EmptyResultNoSession ==
    subfolder_call.stage = "returned" =>
       /\ NothingToAnalyze =>
             /\ subfolder_call.result = FolderResult(<<>>, <<>>)
             /\ ~subfolder_call.session_created
             /\ ~subfolder_call.request_sent
       /\ (\/ subfolder_call.tree_raises \/ subfolder_call.chat_raises
           \/ subfolder_call.response.kind # "ok") =>
             subfolder_call.result = FolderResult(<<>>, <<>>)

C19_Witness ==
    /\ subfolder_call.stage = "returned"
    /\ SubfolderRoot = <<"e">>
    /\ ~subfolder_call.tree_raises /\ ~subfolder_call.chat_raises
    /\ subfolder_call.response.kind = "ok" /\ subfolder_call.response.sure # <<>>
    /\ subfolder_call.result = FolderResult(<<>>, <<>>)

(***************************************************************************)
(* C20: in report_detailed_async the failure of one analysis does not       *)
(* abort the batch.  However the tasks interleave, the list returned holds  *)
(* exactly one entry for every file whose task ended without raising, no    *)
(* entry for a file whose task raised, and nothing else.                    *)
(***************************************************************************)
ReportsOf(path) ==
    { k \in DOMAIN report_result.reports : report_result.reports[k].path = path }

C20_OneReportPerCompletedTask ==
    report_result.returned =>
       /\ \A i \in DOMAIN report_tasks :
             /\ report_tasks[i].stage = "done" =>
                   Cardinality(ReportsOf(report_tasks[i].path)) = 1
             /\ report_tasks[i].stage = "raised" =>
                   ReportsOf(report_tasks[i].path) = {}
       /\ \A k \in DOMAIN report_result.reports :
             \E i \in DOMAIN report_tasks :
                report_tasks[i].path = report_result.reports[k].path

\* a task raised, two others ended in the order opposite to their creation
C20_Witness ==
    /\ report_result.returned
    /\ Len(report_tasks) = 3
    /\ report_tasks[1].stage = "done"
    /\ report_tasks[2].stage = "raised"
    /\ report_tasks[3].stage = "done"
    /\ Len(report_result.reports) = 2
    /\ report_result.reports[1].path = report_tasks[3].path
    /\ report_result.reports[2].path = report_tasks[1].path

(***************************************************************************)
(* C21: a diff that fails validation or application is fatal only for the   *)
(* fix of that file.  generate_single_fix returns the record success =      *)
(* false, error set, fixed_content = None instead of raising; and the loop  *)
(* of run_analysis attempts the fix of every entry that needs an update,    *)
(* in order, whatever failed before, and goes on to the payload.            *)
(***************************************************************************)
DiffFails(call) ==
    LET diff_output == extract_diff_content(Strip(call.raw_output))
    IN  /\ call.style = "diff" /\ call.failure = "none"
        /\ \/ diff_output.raised
           \/ apply_unified_diff(call.original, diff_output.text).kind = "error"

C21_FixFailureContained ==
    /\ (fix_run.stage = "single" /\ DiffFails(fix_run.call)) =>
          /\ ~fix_run.single.raised
          /\ ~fix_run.single.success
          /\ fix_run.single.error # ""
          /\ fix_run.single.fixed_content = NoContent
    /\ fix_run.stage = "fixing" =>
          /\ fix_run.next <= Len(fix_run.needs_update_entries)
          /\ Len(fix_run.attempts) = fix_run.next - 1
    /\ (fix_run.stage \in {"payload", "returned"}) =>
          /\ Len(fix_run.attempts) = Len(fix_run.needs_update_entries)
          /\ \A i \in DOMAIN fix_run.attempts :
                fix_run.attempts[i].path = fix_run.needs_update_entries[i].path

C21_Witness ==
    /\ fix_run.stage = "returned"
    /\ Len(fix_run.attempts) = 2
    /\ fix_run.attempts[1].raised /\ fix_run.attempts[1].error = OverlapError
    /\ ~fix_run.attempts[2].raised
    /\ Len(fix_run.fixes) = 1 /\ fix_run.fixes[1].path = fix_run.attempts[2].path

(***************************************************************************)
(* C22: a report entry whose parsed payload is None is treated as           *)
(* unreported.  run_analysis does not raise on it, never requests a fix     *)
(* for it, and goes on to return its payload.                               *)
(***************************************************************************)
NullReports ==
    { fix_run.report_entries[i].path :
        i \in { j \in DOMAIN fix_run.report_entries :
                  fix_run.report_entries[j].parsed = "null" } }

C22_NullReportNotFixed ==
    /\ fix_run.stage # "raised"
    /\ \A i \in DOMAIN fix_run.needs_update_entries :
          fix_run.needs_update_entries[i].path \notin NullReports
    /\ \A i \in DOMAIN fix_run.attempts : fix_run.attempts[i].path \notin NullReports

C22_Witness ==
    /\ fix_run.stage = "returned" /\ fix_run.tracker
    /\ Len(fix_run.report_entries) = 2
    /\ fix_run.report_entries[1].parsed = "null"
    /\ fix_run.report_entries[2].parsed = "needs_update"
    /\ Len(fix_run.attempts) = 1
    /\ fix_run.attempts[1].path = fix_run.report_entries[2].path

(***************************************************************************)
(* C23: in full_file mode generate_fix never returns a near-empty content:  *)
(* what it returns has at least 10 characters, and when the stripped output *)
(* of the model is empty or shorter than 10 characters the call raises.     *)
(***************************************************************************)
C23_NoNearEmptyFullFile ==
    (fix_run.stage = "single" /\ fix_run.call.style = "full_file") =>
       /\ ~fix_run.result.raised => Len(fix_run.result.content) >= 10
       /\ Len(Strip(fix_run.call.raw_output)) < 10 => fix_run.result.raised

C23_Witness ==
    /\ fix_run.stage = "single" /\ fix_run.call.style = "full_file"
    /\ fix_run.call.failure = "none"
    /\ Len(Strip(fix_run.call.raw_output)) = 9
    /\ Len(fix_run.call.raw_output) = 11
    /\ fix_run.result.raised

(***************************************************************************)
(* C24 as claimed: applying the standard unified diff from a content A to   *)
(* a content B (context lines, a removal, an addition, and the marker       *)
(* "\ No newline at end of file" directly after the old or the new line    *)
(* that has no newline) returns exactly B.                                  *)
(***************************************************************************)
C24_StandardDiffYieldsTarget ==
    (PatchDone /\ diff_case.kind = "standard") =>
       /\ patch_result.kind = "ok"
       /\ patch_result.content = diff_case.target

(***************************************************************************)
(* C25 as claimed: an entry is dropped without a verdict only when a limit  *)
(* is exhausted.  Whatever the escalation step of a round drops from the    *)
(* unsure list without its having been submitted to refine_entry_async in   *)
(* that round, it drops in the round at the iteration cap, or it is a       *)
(* directory at the depth limit or deeper.                                  *)
(***************************************************************************)
SubmittedThisRound(entry) ==
    \E i \in DOMAIN tasks : tasks[i].type = "file" /\ tasks[i].item.path = entry.path

AtDepthLimit(entry) ==
    /\ entry.is_dir
    /\ IsDir(normalize_path(entry.path))
    /\ compute_path_depth(entry.path) >= max_depth

C25_PrunedOnlyAtLimit ==
    [][(pc = "escalate" /\ pc' = "loop") =>
         \A i \in DOMAIN remaining_unsure :
            (/\ ~SubmittedThisRound(remaining_unsure[i])
             /\ \A j \in DOMAIN remaining_unsure' :
                   remaining_unsure'[j].path # remaining_unsure[i].path) =>
               \/ iteration >= max_iterations
               \/ AtDepthLimit(remaining_unsure[i])]_vars

(***************************************************************************)
(* C26: the escalation step of a round below the cap leaves in the unsure   *)
(* list exactly the entries that were in it at an Overview level, one for   *)
(* one and in order, each with the same path and is_dir and with            *)
(* needed_info = raw_content; and the batch of the next round is made of    *)
(* exactly the entries of that list, one task for each.                     *)
(***************************************************************************)
C26_OverviewEscalatedOnce ==
    /\ [][(pc = "escalate" /\ pc' = "loop" /\ iteration < max_iterations) =>
            LET overview == SelectSeq(remaining_unsure, OverviewLevel)
            IN  /\ Len(remaining_unsure') = Len(overview)
                /\ \A i \in DOMAIN overview :
                      /\ remaining_unsure'[i].path = overview[i].path
                      /\ remaining_unsure'[i].is_dir = overview[i].is_dir
                      /\ remaining_unsure'[i].needed_info = "raw_content"]_vars
    /\ [][(pc = "loop" /\ pc' = "batch") =>
            /\ Len(tasks') = Len(remaining_unsure)
            /\ \A i \in DOMAIN tasks' :
                  /\ tasks'[i].item = remaining_unsure[i]
                  /\ tasks'[i].result = Pending]_vars

C26_Witness ==
    /\ pc = "batch"
    /\ iteration = 2
    /\ Len(tasks) = 2
    /\ \A i \in DOMAIN tasks :
          /\ tasks[i].item.needed_info = "raw_content"
          /\ tasks[i].item.reached = 1
          /\ tasks[i].result = Pending
    /\ tasks[1].item.path # tasks[2].item.path

(***************************************************************************)
(* C27: a RawContent-level verdict is terminal.  An entry is an element of  *)
(* the unsure list (an entry of the same path that a later classification   *)
(* pass reports is another entry).  The merge of a batch adds to the        *)
(* unsure list no entry that was submitted to refine_entry_async at         *)
(* raw_content and answered, whatever the confidence: of its path the list  *)
(* holds only what the scans of the batch reported and the entries of the   *)
(* tasks that raised; and the escalation                                    *)
(* step queues for the next round no entry that is at raw_content, a        *)
(* failed task's entry included: for every path it queues at most as many   *)
(* entries as the list held of that path below raw_content.                 *)
(***************************************************************************)
AnsweredAtRawContent(t) ==
    /\ t.type = "file"
    /\ t.item.needed_info = "raw_content"
    /\ t.result.kind = "decision"

\* the entries the subfolder scans of a batch report
ScanReports(ts) ==
    Flatten([i \in 1 .. Len(ts) |->
               IF ts[i].type = "folder" /\ ts[i].result.kind = "ok"
               THEN ts[i].result.unsure ELSE <<>>])

\* the entries whose refine_entry_async task raised
FailedItems(ts) ==
    Flatten([i \in 1 .. Len(ts) |->
               IF ts[i].type = "file" /\ ts[i].result.kind = "exc"
               THEN <<ts[i].item>> ELSE <<>>])

CountPath(entries, path) == Len(SelectSeq(entries, LAMBDA e : e.path = path))

C27_RawContentIsTerminal ==
    /\ [][(pc = "batch" /\ pc' \in {"folders", "escalate"}) =>
            \A i \in DOMAIN tasks :
               AnsweredAtRawContent(tasks[i]) =>
                  LET path == tasks[i].item.path
                  IN  CountPath(remaining_unsure', path)
                         = CountPath(ScanReports(tasks), path)
                           + CountPath(FailedItems(tasks), path)]_vars
    /\ [][(pc = "escalate" /\ pc' = "loop") =>
            \A j \in DOMAIN remaining_unsure' :
               LET path == remaining_unsure'[j].path
               IN  CountPath(remaining_unsure', path)
                      <= CountPath(SelectSeq(remaining_unsure, OverviewLevel), path)]_vars

C27_Witness ==
    /\ pc = "escalate"
    /\ iteration = 2
    /\ \E i \in DOMAIN tasks :
          /\ tasks[i].type = "file"
          /\ tasks[i].item.needed_info = "raw_content"
          /\ tasks[i].result.kind = "exc"
          /\ tasks[i].item \in Range(remaining_unsure)
    /\ \E i \in DOMAIN tasks :
          /\ tasks[i].type = "file"
          /\ tasks[i].item.needed_info = "raw_content"
          /\ tasks[i].result.kind = "decision"
          /\ tasks[i].result.confidence = "low"

(***************************************************************************)
(* C29 as claimed: no path of the confirmed list run_analysis returns is a  *)
(* directory, and no directory is ever in the accumulator final_sure.       *)
(***************************************************************************)
C29_SureHoldsNoDirectory ==
    /\ \A i \in DOMAIN final_sure : ~IsDir(normalize_path(final_sure[i]))
    /\ Returned =>
          \A i \in DOMAIN result_payload.sure :
             ~IsDir(normalize_path(result_payload.sure[i]))

(***************************************************************************)
(* C30: each batch is a fan-out followed by a join.  While a task of the    *)
(* round's batch is in flight nothing is merged into final_sure or the      *)
(* unsure list and nothing is escalated or pruned; when the escalation step *)
(* of a round runs, every task of the batch and every analysis of a folder  *)
(* the round discovered has completed; and a round starts only after the    *)
(* escalation step of the round before has finished, with no task of that   *)
(* round left.                                                              *)
(***************************************************************************)
InFlight(ts) == \E i \in DOMAIN ts : ts[i].result.kind = "pending"

C30_FanOutJoin ==
    /\ [][InFlight(tasks) =>
            /\ final_sure' = final_sure
            /\ remaining_unsure' = remaining_unsure
            /\ pruned_count' = pruned_count
            /\ pc' = "batch"]_vars
    /\ [][(pc = "folders" /\ InFlight(folder_tasks)) =>
            /\ final_sure' = final_sure
            /\ remaining_unsure' = remaining_unsure
            /\ pc' = "folders"]_vars
    /\ [][(pc = "escalate" \/ pc' = "escalate") =>
            ~InFlight(tasks) /\ ~InFlight(folder_tasks)]_vars
    /\ [][iteration' # iteration =>
            /\ pc = "loop" /\ pc' = "batch"
            /\ tasks = <<>> /\ folder_tasks = <<>>
            /\ iteration > 0 => pruned_count' = pruned_count]_vars

C30_Witness ==
    /\ pc = "escalate"
    /\ iteration = 1
    /\ Len(tasks) = 2
    /\ Len(folder_tasks) = 1
    /\ remaining_unsure # <<>>
    /\ ~InFlight(tasks) /\ ~InFlight(folder_tasks)

(***************************************************************************)
(* C28 as claimed: the message list a request carries on a shared session   *)
(* ends with the prompt of the task that sends it, and every other prompt   *)
(* in it belongs to a turn that was complete when the request was sent:     *)
(* never to a task then in flight.                                          *)
(***************************************************************************)
C28_RequestCarriesOwnTurnOnly ==
    \A task \in DOMAIN chat_threads :
       chat_threads[task].stage \in {"sent", "done", "failed"} =>
          LET transmitted == chat_threads[task].transmitted
          IN  /\ transmitted # <<>>
              /\ Last(transmitted) = UserMessage(task)
              /\ \A i \in DOMAIN transmitted :
                    transmitted[i].role = "user" =>
                       \/ transmitted[i].task = task
                       \/ transmitted[i].task \in chat_threads[task].completed

(***************************************************************************)
(* C31 as claimed: in a hunk, a context line matches one original line.  A  *)
(* context line read when the cursor is at or past the end of the original  *)
(* raises the context-overrun error; otherwise the original line at the     *)
(* cursor is appended to the output and the cursor advances by one; and     *)
(* whenever the call returns, the text of every context line after its      *)
(* leading space is the text of the original line it consumed.              *)
(***************************************************************************)
OverrunError == "Context line exceeds original file length"

OriginalLines == SplitLines(original_content, TRUE)

ContextSteps ==
    { i \in DOMAIN patch_result.steps :
         patch_result.steps[i].body /\ StartsWith(patch_result.steps[i].line, <<" ">>) }

C31_ContextMatchesOriginal ==
    \A i \in ContextSteps :
       LET step == patch_result.steps[i]
       IN  IF step.cursor >= Len(OriginalLines)
           THEN /\ step.raised
                /\ patch_result.kind = "error" /\ patch_result.error = OverrunError
           ELSE /\ step.after = step.cursor + 1
                /\ step.patched = Append(step.before, OriginalLines[step.cursor + 1])
                /\ patch_result.kind = "ok" =>
                      Tail(step.line) = RStripNL(OriginalLines[step.cursor + 1])

(***************************************************************************)
(* C32 as claimed: in the body of a hunk, a line that is neither a context  *)
(* line, a removal, an addition nor the no-newline marker raises the        *)
(* unrecognized-diff-line error, and it leaves patched_lines as they were.  *)
(***************************************************************************)
UnrecognizedError == "Unrecognized diff line"

OtherShapeSteps ==
    { i \in DOMAIN patch_result.steps :
         /\ patch_result.steps[i].body
         /\ \A prefix \in { <<" ">>, <<"-">>, <<"+">>, NoNewlineMarker } :
               ~StartsWith(patch_result.steps[i].line, prefix) }

C32_OtherShapeRaises ==
    \A i \in OtherShapeSteps :
       /\ patch_result.steps[i].raised
       /\ patch_result.kind = "error" /\ patch_result.error = UnrecognizedError
       /\ patch_result.steps[i].patched = patch_result.steps[i].before

(***************************************************************************)
(* C34 as claimed: applying a diff leaves the original lines outside the    *)
(* hunks untouched.  A hunk header whose start, taken as at least 1, is s   *)
(* appends the original lines from the cursor up to s-1 as they are and     *)
(* moves the cursor to s-1; nothing read later changes the lines so copied; *)
(* and the content returned ends with the original lines from the last      *)
(* cursor on, as they are.                                                  *)
(***************************************************************************)
CopyingHeaders ==
    { i \in DOMAIN patch_result.steps :
         /\ StartsWith(patch_result.steps[i].line, HunkMark)
         /\ HunkHeader(patch_result.steps[i].line).matched
         /\ ~patch_result.steps[i].raised }

Copied(i) ==
    Len(patch_result.steps[i].before) + 1 .. Len(patch_result.steps[i].patched)

C34_OutsideLinesUntouched ==
    /\ \A i \in CopyingHeaders :
          LET step == patch_result.steps[i]
          IN  /\ step.after = ClampedStart(HunkHeader(step.line))
              /\ step.patched =
                    step.before \o Slice(OriginalLines, step.cursor, step.after)
              /\ \A j \in DOMAIN patch_result.steps : \A p \in Copied(i) :
                    j > i => patch_result.steps[j].patched[p] = step.patched[p]
    /\ (patch_result.kind = "ok" /\ patch_result.steps # <<>>) =>
          LET last == patch_result.steps[Len(patch_result.steps)]
          IN  patch_result.content =
                 Flatten(last.patched
                         \o Slice(OriginalLines, last.after, Len(OriginalLines)))

(***************************************************************************)
(* C40 as claimed: while a diff is applied, the cursor into the original    *)
(* lines stays between 0 and the number of original lines, and a removal    *)
(* line read when the cursor is already at the end of the original raises.  *)
(***************************************************************************)
RemovalSteps ==
    { i \in DOMAIN patch_result.steps :
         /\ patch_result.steps[i].body
         /\ StartsWith(patch_result.steps[i].line, <<"-">>)
         /\ ~StartsWith(patch_result.steps[i].line, MinusHeader) }

C40_CursorWithinOriginal ==
    /\ \A i \in DOMAIN patch_result.steps :
          /\ 0 <= patch_result.steps[i].cursor
          /\ patch_result.steps[i].cursor <= Len(OriginalLines)
          /\ 0 <= patch_result.steps[i].after
          /\ patch_result.steps[i].after <= Len(OriginalLines)
    /\ \A i \in RemovalSteps :
          patch_result.steps[i].cursor >= Len(OriginalLines) =>
             (patch_result.steps[i].raised /\ patch_result.kind = "error")

(***************************************************************************)
(* C37 as claimed: process_refinement_batch puts a path on the list of      *)
(* folders to analyze only if the evidence gathering found it to be a       *)
(* directory.  A verdict the model returned for a regular file, whatever    *)
(* its reasoning, never sends the path of the file to that list.            *)
(***************************************************************************)
ModelVerdictForFile(t) ==
    /\ t.type = "file" /\ t.result.kind = "decision" /\ t.result.asked
    /\ ~IsDir(normalize_path(t.item.path))

C37_OnlyDirectoriesRerouted ==
    refine_call.stage = "processed" =>
       /\ \A i \in DOMAIN refine_call.folders :
             IsDir(normalize_path(refine_call.folders[i]))
       /\ \A t \in {refine_call.task, refine_call.sibling} :
             ModelVerdictForFile(t) => t.item.path \notin Range(refine_call.folders)

(***************************************************************************)
(* C39 as claimed: every sure path and every unsure entry path that         *)
(* analyze_subfolder_async returns for a folder is a root-relative path     *)
(* inside that folder: the folder itself or a path below it.                *)
(***************************************************************************)
InsideFolder(folder, path) ==
    IF folder = <<".">> THEN ~StartsWith(path, <<".", ".">>)
    ELSE path = folder \/ StartsWith(path, folder \o <<Sep>>)

C39_ReturnedPathsInsideFolder ==
    subfolder_call.stage = "returned" =>
       LET folder == normalize_path(subfolder_call.folder_path)
       IN  /\ \A i \in DOMAIN subfolder_call.result.sure :
                 InsideFolder(folder, subfolder_call.result.sure[i])
           /\ \A i \in DOMAIN subfolder_call.result.unsure :
                 InsideFolder(folder, subfolder_call.result.unsure[i].path)

(***************************************************************************)
(* C38 as claimed: within one run of run_analysis no directory is analysed  *)
(* by analyze_subfolder_async more than once, whether the calls are made    *)
(* for the sure folders of the initial pass, for the folder tasks of a      *)
(* refinement batch or for the folders a batch discovered, in any round.    *)
(***************************************************************************)
C38_NoDirectoryAnalysedTwice ==
    \A i, j \in DOMAIN analysed :
       (i # j /\ IsDir(normalize_path(analysed[i]))) =>
          normalize_path(analysed[i]) # normalize_path(analysed[j])

(***************************************************************************)
(* utils/reporting_normalizer.py: coerce_detailed_report_payload, as far as *)
(* the diagnosis goes.  The raw payload is the value after json.loads and   *)
(* normalize_keys; the values under its keys are written as Python          *)
(* literals, "None" standing for a key that is absent or null.              *)
(***************************************************************************)
PayloadValues == {"None", "True", "False", "'yes'", "'no'"}

\* the truth value Python gives the literal
Truthy(value) == value \in {"True", "'yes'", "'no'"}

\* a or b
Or(a, b) == IF Truthy(a) THEN a ELSE b

IsStr(value) == value \in {"'yes'", "'no'"}

\* reporting_normalizer.py 71: value.lower() in {'true', 'yes', 'y', '1'}
SaysYes(value) == value = "'yes'"

\* reporting_normalizer.py 64-69: the chain of or
RECURSIVE FirstOf(_)
FirstOf(values) ==
    IF Len(values) = 1 THEN Head(values)
    ELSE Or(Head(values), FirstOf(Tail(values)))

\* reporting_normalizer.py 60-85: payload['diagnosis']['needs_update']
NeedsUpdate(normalized) ==
    LET diagnosis_src ==
           IF normalized.diagnosis.kind = "dict" THEN normalized.diagnosis
           ELSE NoRawPayload.diagnosis                                  \* 61-62
        needs_update == FirstOf(<<diagnosis_src.needs_update,
                                  diagnosis_src.needs_updates,
                                  diagnosis_src.requires_update,
                                  normalized.needs_update>>)
    IN  IF IsStr(needs_update) THEN SaysYes(needs_update)               \* 70-71
        ELSE IF needs_update = "None" THEN TRUE                         \* 72-73
        ELSE Truthy(needs_update)                                       \* 83

\* reporting_normalizer.py 9-133: None, or the report
coerce_detailed_report_payload(raw) ==
    IF raw.kind # "dict" THEN [null |-> TRUE, needs_update |-> FALSE]   \* 11-19
    ELSE [null |-> FALSE, needs_update |-> NeedsUpdate(raw)]

\* the raw payloads of the model
RawPayloads ==
    { [kind |-> kind,
       diagnosis |-> [kind |-> diagnosis_kind, needs_update |-> a,
                      needs_updates |-> b, requires_update |-> c],
       needs_update |-> d] :
         kind \in {"dict", "other"}, diagnosis_kind \in {"dict", "other"},
         a \in PayloadValues, b \in {"None", "True"}, c \in {"None", "'no'"},
         d \in PayloadValues }

\* reporting.py 74: resp.parsed is None and the content is coerced
CallCoerce ==
    /\ coerce_call.stage = "idle"
    /\ \E raw \in RawPayloads :
          coerce_call' = [coerce_call EXCEPT !.stage = "called", !.raw = raw]
    /\ UNCHANGED <<runvars, managervars, rerunvars, patchvars, resolvevars>>
    /\ UNCHANGED <<refinevars, subfoldervars, reportvars, fixvars, chatvars, historyvars>>

ReturnCoerce ==
    /\ coerce_call.stage = "called"
    /\ coerce_call' =
          [coerce_call EXCEPT
             !.stage = "returned",
             !.report = coerce_detailed_report_payload(coerce_call.raw)]
    /\ UNCHANGED <<runvars, managervars, rerunvars, patchvars, resolvevars>>
    /\ UNCHANGED <<refinevars, subfoldervars, reportvars, fixvars, chatvars, historyvars>>

CoerceNext == CallCoerce \/ ReturnCoerce

CoerceSpec == Init /\ [][CoerceNext]_vars

(***************************************************************************)
(* C36 as claimed: the coercion keeps an explicit diagnosis.  For a raw     *)
(* payload that is a dictionary whose diagnosis is a dictionary with a      *)
(* boolean needs_update, the report returned has that needs_update; and     *)
(* the default of true is taken only when neither needs_update nor an       *)
(* alias of it is present.                                                  *)
(***************************************************************************)
ExplicitDiagnosis ==
    /\ coerce_call.raw.kind = "dict" /\ coerce_call.raw.diagnosis.kind = "dict"
    /\ coerce_call.raw.diagnosis.needs_update \in {"True", "False"}

C36_ExplicitDiagnosisKept ==
    (coerce_call.stage = "returned" /\ ExplicitDiagnosis) =>
       /\ ~coerce_call.report.null
       /\ coerce_call.report.needs_update =
             (coerce_call.raw.diagnosis.needs_update = "True")

(***************************************************************************)
(* C33 as claimed: the diff extraction rejects an output that has hunk      *)
(* markers but lacks the "---" and "+++" header lines.  Every diff with a   *)
(* hunk that generate_fix has extracted and applied has a line that starts  *)
(* with "---" and a line that starts with "+++".                            *)
(***************************************************************************)
HasHeaderLine(diff_lines, header) ==
    \E i \in DOMAIN diff_lines : StartsWith(diff_lines[i], header)

C33_HunksComeWithHeaderLines ==
    (fix_run.stage = "single" /\ fix_run.call.style = "diff"
       /\ ~fix_run.result.raised /\ HasHunk(SplitLines(fix_run.result.diff, FALSE))) =>
       /\ HasHeaderLine(SplitLines(fix_run.result.diff, FALSE), MinusHeader)
       /\ HasHeaderLine(SplitLines(fix_run.result.diff, FALSE), PlusHeader)

(***************************************************************************)
(* C35: the classification gates the patching.  generate_fix rejects a      *)
(* report whose diagnosis.needs_update is false before it reads the file    *)
(* and before it sends a request, and generate_single_fix reports the       *)
(* rejection as a failure.  run_analysis calls generate_fix only when an    *)
(* evaluation tracker is set, only for paths of the final confirmed list,   *)
(* and only for entries whose parsed report says needs_update.              *)
(***************************************************************************)
AttemptedPaths == { fix_run.attempts[i].path : i \in DOMAIN fix_run.attempts }

C35_ClassificationGatesFixes ==
    /\ (fix_run.stage = "single" /\ fix_run.call.failure \in UpdateFailures) =>
          /\ fix_run.result.raised
          /\ fix_run.result.error = "does not need updates"
          /\ ~fix_run.result.read /\ ~fix_run.result.sent
          /\ ~fix_run.single.success
    /\ \A path \in AttemptedPaths :
          /\ fix_run.tracker
          /\ path \in Range(fix_run.final_sure)
          /\ \E i \in DOMAIN fix_run.report_entries :
                /\ fix_run.report_entries[i].path = path
                /\ fix_run.report_entries[i].parsed = "needs_update"

C35_Witness ==
    /\ fix_run.stage = "returned"
    /\ Len(fix_run.report_entries) = 2
    /\ fix_run.report_entries[1].parsed = "no_update"
    /\ fix_run.report_entries[2].parsed = "needs_update"
    /\ AttemptedPaths = {fix_run.report_entries[2].path}
    /\ Len(fix_run.fixes) = 1
====
